---- MODULE Spec2Model ----
(***************************************************************************)
(* The HTTP/SSE transport bridge of docs-mcp (src/src/bin/axum_docs/mod.rs) *)
(* as a state machine: the session registry `txs`, the per-session          *)
(* client-to-server pipe, the spawned engine task of every session and the  *)
(* message-submit handler, one action per shared-state operation (every     *)
(* .await of the handlers is a point where other tasks run).                *)
(*                                                                         *)
(* A byte is modelled by who sent it and where it stood in the body:        *)
(* <<h, i>> is the i-th body byte of request h and <<h, 0>> the b'\n' that   *)
(* request h wrote after its body.  Sizes are scaled: the pipe holds        *)
(* BUFFER_SIZE bytes and the body ceiling is BODY_BYTES_LIMIT bytes; the    *)
(* source's values are BUFFER_SIZE_SRC and BODY_BYTES_LIMIT_SRC.            *)
(*                                                                         *)
(* What lies outside the repository is modelled by what it can do:          *)
(*  - session_id() draws a random u128, so a connect may draw any id, one   *)
(*    that is or was in use included; HashMap::insert replaces an entry;    *)
(*  - the engine (mcp_server's Server::run) reads the pipe in pieces of any *)
(*    size and may return, Ok or Err, at any moment;                        *)
(*  - tokio's simplex pipe takes as many bytes as fit and leaves the writer *)
(*    waiting when it is full.  Whether a write fails once the engine has   *)
(*    dropped the read half is left open: the handler's 500 path expects    *)
(*    BrokenPipe, while the halves come from io::split, whose drop by       *)
(*    itself closes nothing.  dropCloses is fixed either way in the initial *)
(*    state;                                                                *)
(*  - a request body arrives as chunks of any length, may end, and may fail;*)
(*  - the engine writes any bytes to the server-to-client pipe, text or not, *)
(*    one at a time;                                                        *)
(*  - the client of an outward stream may go away at any moment, and the    *)
(*    response body is dropped when it does, when the stream ends and when  *)
(*    the stream yields an Err item;                                        *)
(*  - JsonRpcFrameCodec is not among the sources; it is modelled from the   *)
(*    design document: a frame is the bytes before the first newline.       *)
(*                                                                         *)
(* Spec is the inbound path: connects, engines and submits.  SpecLife is    *)
(* the sessions side by side with their outward streams and no submit.      *)
(* SpecOut is one session with both pipes in use, its outward stream and    *)
(* one submit.  SpecId is session_id() over the values the random source    *)
(* can return.  SpecCodec is the frame codec by itself: every byte stream  *)
(* of up to MaxStream bytes, appended to the buffer in every chunking, with *)
(* decode calls in between.                                                 *)
(*                                                                         *)
(* The documentation tools (src/src/tools/docs/docs.rs) are a second state  *)
(* machine: the cache behind its Mutex and the futures of call_tool, one    *)
(* action per stretch between two awaits.  docs.rs and crates.io answer a   *)
(* request with a failure of send(), a status that is no success, a failure *)
(* of text(), or a body; parse_html turns the page h1 into the markdown m1. *)
(* A cache key is the sequence of the pieces that format! joins with        *)
(* colons.  u32 and u64 are U32Bits and U64Bits wide.  SpecTools is the     *)
(* calls side by side on one router; SpecLimit is search_crates over the    *)
(* limits a caller can pass.                                                *)
(*                                                                         *)
(* Definitions named as a faulty variant restate the definition that        *)
(* follows them with one slip; the properties are tried against them.       *)
(***************************************************************************)
EXTENDS Integers, Sequences, FiniteSets

\* ---------------------------------------------------------------- bounds
\* Connections (sse_handler calls) made in one behaviour.
MaxSessions == 2
\* Submit requests (post_event_handler calls) made in one behaviour.
MaxSubmits == 2
\* Distinct values session_id() can return.
MaxIds == 2
\* Scaled capacity of tokio::io::simplex(BUFFER_SIZE).
BUFFER_SIZE == 2
\* Scaled body ceiling.
BODY_BYTES_LIMIT == 2
\* Bytes all engines together write to their server-to-client pipes.
MaxOut == 4
\* Connections and submit requests made in one behaviour of the
\* outward-stream specification.
MaxOutSessions == 1
MaxOutSubmits == 1
\* Bytes in the stream handed to the frame codec on its own.
MaxStream == 4
\* Tool calls whose futures are alive side by side on clones of one router.
MaxCalls == 2
\* The widths the model gives u32 and u64 (the source's are U32_BITS_SRC and
\* U64_BITS_SRC); the cap of 100 fits in the narrower one.
U32Bits == 8
U64Bits == 10

\* The values the source gives the two sizes (1 << 12 and 1 << 22).
BUFFER_SIZE_SRC == 2^12
BODY_BYTES_LIMIT_SRC == 2^22

\* ------------------------------------------------------ http::StatusCode
NOT_FOUND == 404
PAYLOAD_TOO_LARGE == 413
BAD_REQUEST == 400
INTERNAL_SERVER_ERROR == 500
ACCEPTED == 202

\* search_crates: limit.unwrap_or(10).min(100)
DEFAULT_LIMIT == 10
MAX_LIMIT == 100
U32_BITS_SRC == 32
U64_BITS_SRC == 64

\* rand::random::<u128>() has 128 bits, 4 to a hex digit; {:016x} pads to 16.
U128_BITS == 128
HEX_MIN_WIDTH == 16
U128_DIGITS == U128_BITS \div 4

Sess == 1..MaxSessions
Hand == 1..MaxSubmits
Ids == 1..MaxIds
\* size_hint().1 = None
NoHint == 0 - 1
\* The upper size hints a request body may carry.
Hints == {NoHint, BODY_BYTES_LIMIT, BODY_BYTES_LIMIT + 1}
\* The lengths of one body chunk.  An empty chunk changes nothing (size += 0
\* and write_all of no bytes returns at once), so none is drawn.
ChunkLens == 1..(BODY_BYTES_LIMIT + 1)

VARIABLES
  txs,        \* the registry: session id -> session whose write handle it holds (0: no entry)
  nsess,      \* connections accepted so far; session k is the k-th
  sid,        \* session -> the id session_id() gave it (0: not yet connected)
  engine,     \* session -> "unborn" | "running" | "returned" (run is over) | "done" (task over)
  c2s,        \* session -> bytes in the client-to-server pipe
  recv,       \* session -> bytes the engine has read from the pipe
  dropCloses, \* whether the linked tokio fails writes once the read half is dropped
  pc,         \* request -> "idle" | "lock" | "body" | "write" | "newline" | "ret" | "done"
  hid,        \* request -> the sessionId query parameter (0: not yet arrived)
  wr,         \* request -> session whose write handle it cloned (0: none)
  holds,      \* request -> it holds the MutexGuard of wr's write handle
  hint,       \* request -> body.size_hint().1 (NoHint: None)
  size,       \* request -> body bytes read so far (the handler's `size`)
  sent,       \* request -> body bytes written to the pipe so far
  status,     \* request -> the StatusCode returned (0: not yet)
  fault,      \* request -> "none" | "read" | "write": the I/O error it met
  order,      \* session -> requests that returned Accepted, in the order they returned
  sse,        \* session -> its outward stream: "none" | "endpoint" (returned, nothing
              \*   emitted yet) | "frames" | "eof" | "error" | "dropped" (client gone)
  s2c,        \* session -> bytes in the server-to-client pipe
  got,        \* session -> bytes FramedRead has read from that pipe
  rd,         \* session -> FramedRead's buffer: bytes read and not yet decoded
  events,     \* session -> the items the outward stream has yielded, in order
  rnd,        \* the u128 rand::random() returned, as hex digits, most significant first
  idstr,      \* the string session_id() made of it (<<>>: not yet called)
  cstream,    \* the bytes a reader will hand to the frame codec, all of them
  cpos,       \* how many of them have been appended to the codec's buffer
  cbuf,       \* the codec's buffer (the BytesMut decode works on)
  cout,       \* the frames decode has returned, in order
  cstep,      \* the last operation on the buffer: "new" | "extend" | "none"
              \*   (decode returned Ok(None)) | "frame" (decode returned a frame)
  cfeeds,     \* how many chunks have been appended
  cache,      \* DocCache: cache key -> Option of the markdown stored under it
  cmutex,     \* the call holding the cache's Mutex (0: free)
  call,       \* tool call -> the locals of its future (see IdleCall)
  latest      \* cache key -> Option of the value of the set that completed last

vars == <<txs, nsess, sid, engine, c2s, recv, dropCloses, pc, hid, wr, holds,
          hint, size, sent, status, fault, order, sse, s2c, got, rd, events,
          rnd, idstr, cstream, cpos, cbuf, cout, cstep, cfeeds,
          cache, cmutex, call, latest>>

sessVars == <<txs, nsess, sid, engine>>
handVars == <<pc, hid, wr, holds, hint, size, sent, status, fault>>
outVars == <<s2c, got, rd, events>>
idVars == <<rnd, idstr>>
codecVars == <<cstream, cpos, cbuf, cout, cstep, cfeeds>>
toolVars == <<cache, cmutex, call, latest>>

\* ----------------------------------------------------------------- helpers
Min(a, b) == IF a < b THEN a ELSE b

\* Body bytes a..b of request h, in order.
Bytes(h, a, b) == [k \in 1..(b - a + 1) |-> <<h, a + k - 1>>]

\* The newline request h writes after its body.
Newline(h) == <<h, 0>>

\* Every byte ever written to session s's pipe, in write order.
Stream(s) == recv[s] \o c2s[s]

\* Faulty variant of Get: a miss falls back to the first session's handle.
GetOrFirst(id) == IF txs[id] = 0 /\ nsess > 0 THEN 1 ELSE txs[id]

\* rg.get(session_id): the session whose handle the registry holds, 0 for None.
Get(id) == txs[id]

\* Faulty variant of ReadGuards: the guard lives to the handler's return.
ReadGuardsKeptToReturn == {h \in Hand : pc[h] \notin {"idle", "done"}}

\* The submits that hold a read guard of txs between two steps.  The guard
\* `rg` is a local of the block that gets and clones the handle; the block
\* awaits nothing once it has the guard, so the guard is gone before the
\* handler's next suspension point.
ReadGuards == {}

\* txs.write().await returns: no read guard is out.
WriteLockFree == ReadGuards = {}

\* Faulty variant of TooLarge: > written as >=.
TooLargeOffByOne(n) == n >= BODY_BYTES_LIMIT

\* size > BODY_BYTES_LIMIT, for the declared and for the counted size.
TooLarge(n) == n > BODY_BYTES_LIMIT

\* Faulty variant of MutexFree: every submit locks a Mutex of its own.
MutexFreeAlways(s) == TRUE

\* Faulty variant of MutexFree: one Mutex guards the handles of all sessions.
MutexFreeGlobal(s) == \A g \in Hand : ~holds[g]

\* The Mutex of session s's write handle is free.
MutexFree(s) == \A g \in Hand : ~(holds[g] /\ wr[g] = s)

\* The ReadHalf of session s's pipe is gone: ByteTransport is dropped when run returns.
ReaderDropped(s) == engine[s] \in {"returned", "done"}

\* poll_write answers Err(BrokenPipe).
PipeBroken(s) == dropCloses /\ ReaderDropped(s)

\* Faulty variant of Avail: the pipe takes one byte more than its capacity.
AvailOneMore(s) == BUFFER_SIZE + 1 - Len(c2s[s])

\* Free room in the pipe of session s.
Avail(s) == BUFFER_SIZE - Len(c2s[s])

\* App::new(): an empty registry, no connection, no request.
InitBridge ==
  /\ txs = [i \in Ids |-> 0]
  /\ nsess = 0
  /\ sid = [s \in Sess |-> 0]
  /\ engine = [s \in Sess |-> "unborn"]
  /\ c2s = [s \in Sess |-> <<>>]
  /\ recv = [s \in Sess |-> <<>>]
  /\ dropCloses \in BOOLEAN
  /\ pc = [h \in Hand |-> "idle"]
  /\ hid = [h \in Hand |-> 0]
  /\ wr = [h \in Hand |-> 0]
  /\ holds = [h \in Hand |-> FALSE]
  /\ hint = [h \in Hand |-> NoHint]
  /\ size = [h \in Hand |-> 0]
  /\ sent = [h \in Hand |-> 0]
  /\ status = [h \in Hand |-> 0]
  /\ fault = [h \in Hand |-> "none"]
  /\ order = [s \in Sess |-> <<>>]
  /\ sse = [s \in Sess |-> "none"]
  /\ s2c = [s \in Sess |-> <<>>]
  /\ got = [s \in Sess |-> <<>>]
  /\ rd = [s \in Sess |-> <<>>]
  /\ events = [s \in Sess |-> <<>>]
  /\ idstr = <<>>

\* ------------------------------------------------- tools/docs: the values
Calls == 1..MaxCalls

\* serde_json::Value, as far as call_tool looks at it: a string, a number,
\* or no such member.
Absent == [t |-> "absent", s |-> "", n |-> 0]
Str(s) == [t |-> "str", s |-> s, n |-> 0]
Num(n) == [t |-> "num", s |-> "", n |-> n]

\* Value::as_str: Some for a string only.  An Option is a sequence of at
\* most one value.
AsStr(v) == IF v.t = "str" THEN <<v.s>> ELSE <<>>

\* Value::as_u64: Some for an integer in the range of u64; a negative one is
\* an i64 and one above the range is parsed as a float, both give None.
AsU64(v) == IF v.t = "num" /\ v.n >= 0 /\ v.n < 2^U64Bits THEN <<v.n>> ELSE <<>>

\* `v as u32` of a u64: the low bits.
AsU32(n) == n % 2^U32Bits

\* arguments.get("limit").and_then(|v| v.as_u64()).map(|v| v as u32)
LimitOf(v) == IF AsU64(v) = <<>> THEN <<>> ELSE <<AsU32(AsU64(v)[1])>>

\* limit.unwrap_or(10).min(100)
PerPage(limit) == Min(IF limit = <<>> THEN DEFAULT_LIMIT ELSE limit[1], MAX_LIMIT)

\* The names call_tool is called with: the three tools and two others.
ToolNames == {"lookup_crate", "search_crates", "lookup_item", "invalid_tool", "lookup"}

\* The members of the arguments object that call_tool reads.
NoArgs == [crate_name |-> Absent, item_path |-> Absent, version |-> Absent,
           query |-> Absent, limit |-> Absent]

CrateArgs == {Absent, Num(7), Str("a")}
VersionArgs == {Absent, Str("b")}
ItemArgs == {Absent, Num(7), Str("b")}
QueryArgs == {Absent, Num(7), Str("a")}
LimitArgs == {Absent, Num(5)}
\* The limits drawn where search_crates is looked at by itself: no member,
\* a string, and every integer from below zero to beyond the range of u64.
WideLimitArgs == {Absent, Str("b")} \cup {Num(n) : n \in (0 - 2)..(2^U64Bits + 2)}

\* The argument objects drawn for a call of the tool with this name.
ArgsOf(name) ==
  IF name = "lookup_crate"
  THEN {[NoArgs EXCEPT !.crate_name = c, !.version = v] : c \in CrateArgs, v \in VersionArgs}
  ELSE IF name = "search_crates"
  THEN {[NoArgs EXCEPT !.query = q, !.limit = l] : q \in QueryArgs, l \in LimitArgs}
  ELSE IF name = "lookup_item"
  THEN {[NoArgs EXCEPT !.crate_name = c, !.item_path = i, !.version = v] :
          c \in CrateArgs, i \in ItemArgs, v \in VersionArgs}
  ELSE {NoArgs, [NoArgs EXCEPT !.crate_name = Str("a")]}

\* Faulty variant of CrateKey: the version is left out of the key.
CrateKeyIgnoresVersion(crate, ver) == <<crate>>

\* lookup_crate's cache key, format!("{}:{}", crate_name, ver) or the crate
\* name alone, as the pieces the colons join.
CrateKey(crate, ver) == IF ver # <<>> THEN <<crate, ver[1]>> ELSE <<crate>>

\* lookup_item's cache key, format!("{}:{}:{}", crate_name, ver, item_path)
\* or format!("{}:{}", crate_name, item_path).
ItemKey(crate, item, ver) ==
  IF ver # <<>> THEN <<crate, ver[1], item>> ELSE <<crate, item>>

\* The strings the drawn arguments hold, and the keys made of them.
ArgStrings == {"a", "b"}
CacheKeys == UNION {[1..n -> ArgStrings] : n \in 1..3}

\* The pages a server answers with and what parse_html makes of them.
Pages == {"h1", "h2"}
ParseHtml(body) == IF body = "h1" THEN "m1" ELSE IF body = "h2" THEN "m2" ELSE body
\* A body of crates.io's API: body.trim().starts_with('{')
JsonBodies == {"{j1"}

\* Faulty variant of item_types: functions are tried before traits.
item_types_fn_before_trait == <<"struct", "enum", "fn", "trait", "macro">>

\* The item kinds lookup_item tries, in this order.
item_types == <<"struct", "enum", "trait", "fn", "macro">>

\* Result<Vec<Content>, ToolError>; kind "none" while the future is pending.
NoResult == [kind |-> "none", content |-> <<>>, msg |-> <<>>]
Ok(text) == [kind |-> "Ok", content |-> <<text>>, msg |-> <<>>]
\* Faulty variant of ToolErrorNotFound: the message does not name the tool.
ToolErrorNotFoundUnnamed(name) == [kind |-> "NotFound", content |-> <<>>, msg |-> <<"Tool not found">>]
\* ToolError::NotFound(format!("Tool {} not found", tool_name))
ToolErrorNotFound(name) == [kind |-> "NotFound", content |-> <<>>, msg |-> <<"Tool ", name, " not found">>]
InvalidParameters(msg) == [kind |-> "InvalidParameters", content |-> <<>>, msg |-> msg]
ExecutionError(msg) == [kind |-> "ExecutionError", content |-> <<>>, msg |-> msg]

\* No URL built yet.  A URL is its pieces and, for a search, the number
\* written behind per_page= (-1 otherwise).
NoUrl == [parts |-> <<>>, per_page |-> 0 - 1]

\* The locals of one call_tool future.  pc: "idle" (not called) | "get"
\* (waiting for the Mutex in DocCache::get) | "getlocked" | "fetch" (about
\* to send the request for url) | "set" (waiting for the Mutex in DocCache::set) |
\* "setlocked" | "done" (the future has returned).
IdleCall ==
  [pc |-> "idle", tool |-> "", args |-> NoArgs, key |-> <<>>, kind |-> 0,
   last_error |-> <<>>, doc |-> "", got |-> <<>>, result |-> NoResult,
   nreq |-> 0, looked |-> FALSE, url |-> NoUrl]

\* DocRouter::new(): an empty cache, no call under way.
NewRouter ==
  /\ cache = [k \in CacheKeys |-> <<>>]
  /\ cmutex = 0
  /\ call = [c \in Calls |-> IdleCall]
  /\ latest = [k \in CacheKeys |-> <<>>]

\* No value drawn for an id yet.
IdleId == rnd = [i \in 1..U128_DIGITS |-> 0]

\* A codec with an empty buffer and nothing to read.
IdleCodec ==
  /\ cstream = <<>>
  /\ cpos = 0
  /\ cbuf = <<>>
  /\ cout = <<>>
  /\ cstep = "new"
  /\ cfeeds = 0

Init ==
  /\ InitBridge
  /\ IdleId
  /\ IdleCodec
  /\ NewRouter

\* ------------------------------------------------------------ sse_handler
\* session_id(), simplex(), txs.write().insert(), tokio::spawn: the k-th
\* connect.  Nothing waits between the insert and the spawn, and a spawned
\* task that has not run yet is an engine that has not read yet.
Connect(id) ==
  /\ nsess < MaxSessions
  /\ WriteLockFree
  /\ nsess' = nsess + 1
  /\ sid' = [sid EXCEPT ![nsess + 1] = id]
  /\ txs' = [txs EXCEPT ![id] = nsess + 1]
  /\ engine' = [engine EXCEPT ![nsess + 1] = "running"]
  /\ sse' = [sse EXCEPT ![nsess + 1] = "endpoint"]
  /\ UNCHANGED <<c2s, recv, dropCloses, order>>
  /\ UNCHANGED handVars
  /\ UNCHANGED <<outVars, idVars, codecVars, toolVars>>

\* The engine reads n bytes of what the pipe holds.
EngineRead(s, n) ==
  /\ engine[s] = "running"
  /\ n \in 1..Len(c2s[s])
  /\ recv' = [recv EXCEPT ![s] = @ \o SubSeq(c2s[s], 1, n)]
  /\ c2s' = [c2s EXCEPT ![s] = SubSeq(@, n + 1, Len(@))]
  /\ UNCHANGED <<dropCloses, order>>
  /\ UNCHANGED sessVars
  /\ UNCHANGED handVars
  /\ UNCHANGED <<sse, outVars, idVars, codecVars, toolVars>>

\* server.run(bytes_transport) returns res, Ok or Err; inspect_err only logs the
\* error, so the task goes on to the removal the same way after either.
EngineExit(s, res) ==
  /\ engine[s] = "running"
  /\ res \in {"ok", "err"}
  /\ engine' = [engine EXCEPT ![s] = "returned"]
  /\ UNCHANGED <<txs, nsess, sid, c2s, recv, dropCloses, order>>
  /\ UNCHANGED handVars
  /\ UNCHANGED <<sse, outVars, idVars, codecVars, toolVars>>

\* Faulty variant of Removed: the removal is skipped.
RemovedNothing(s) == txs

\* HashMap::remove(&session): the registry without the key of session s.
Removed(s) == [txs EXCEPT ![sid[s]] = 0]

\* app_clone.txs.write().await.remove(&session), the task's last step.
Remove(s) ==
  /\ engine[s] = "returned"
  /\ WriteLockFree
  /\ txs' = Removed(s)
  /\ engine' = [engine EXCEPT ![s] = "done"]
  /\ UNCHANGED <<nsess, sid, c2s, recv, dropCloses, order>>
  /\ UNCHANGED handVars
  /\ UNCHANGED <<sse, outVars, idVars, codecVars, toolVars>>

\* ----------------------------------------------------- post_event_handler
\* Retire request h with status st, dropping the guard if it holds one.
Finish(h, st) ==
  /\ pc' = [pc EXCEPT ![h] = "done"]
  /\ status' = [status EXCEPT ![h] = st]
  /\ holds' = [holds EXCEPT ![h] = FALSE]

\* app.txs.read().await, rg.get(..).ok_or(NOT_FOUND)?.clone()
Lookup(h, id) ==
  /\ pc[h] = "idle"
  /\ \A g \in Hand : g < h => pc[g] # "idle"
  /\ hid' = [hid EXCEPT ![h] = id]
  /\ IF Get(id) = 0
       THEN /\ Finish(h, NOT_FOUND)
            /\ UNCHANGED wr
       ELSE /\ wr' = [wr EXCEPT ![h] = Get(id)]
            /\ pc' = [pc EXCEPT ![h] = "lock"]
            /\ UNCHANGED <<status, holds>>
  /\ UNCHANGED <<hint, size, sent, fault, c2s, recv, dropCloses, order>>
  /\ UNCHANGED sessVars
  /\ UNCHANGED <<sse, outVars, idVars, codecVars, toolVars>>

\* Faulty variant of HintTooLarge: the declared length is not looked at.
HintIgnored(hn) == FALSE

\* if let (_, Some(size)) = body.size_hint() { if size > BODY_BYTES_LIMIT .. }
HintTooLarge(hn) == hn # NoHint /\ TooLarge(hn)

\* Faulty variant of Acquire: the guard is dropped as soon as it is taken.
AcquireNothing(h) == UNCHANGED holds

\* let mut write_stream = ..lock().await: the MutexGuard lives to the return.
Acquire(h) == holds' = [holds EXCEPT ![h] = TRUE]

\* write_stream.lock().await, then the size_hint check; a body declared over
\* the ceiling returns at once, which drops the guard again.
Lock(h, hn) ==
  /\ pc[h] = "lock"
  /\ MutexFree(wr[h])
  /\ hint' = [hint EXCEPT ![h] = hn]
  /\ IF HintTooLarge(hn)
       THEN Finish(h, PAYLOAD_TOO_LARGE)
       ELSE /\ Acquire(h)
            /\ pc' = [pc EXCEPT ![h] = "body"]
            /\ UNCHANGED status
  /\ UNCHANGED <<hid, wr, size, sent, fault, c2s, recv, dropCloses, order>>
  /\ UNCHANGED sessVars
  /\ UNCHANGED <<sse, outVars, idVars, codecVars, toolVars>>

\* Faulty variant of ReadFailed: the error ends the loop like end of body.
ReadFailedAsEnd(h) ==
  /\ fault' = [fault EXCEPT ![h] = "read"]
  /\ pc' = [pc EXCEPT ![h] = "newline"]
  /\ UNCHANGED <<size, status, holds>>

\* body.next() yields Some(Err(_)): return Err(BAD_REQUEST).
ReadFailed(h) ==
  /\ fault' = [fault EXCEPT ![h] = "read"]
  /\ Finish(h, BAD_REQUEST)
  /\ UNCHANGED size

\* body.next() yields None: the loop ends.
BodyEnd(h) ==
  /\ hint[h] = NoHint \/ size[h] = hint[h]
  /\ pc' = [pc EXCEPT ![h] = "newline"]
  /\ UNCHANGED <<size, status, fault, holds>>

\* Faulty variant of ChunkRead: the ceiling is not checked inside the loop.
ChunkReadUnchecked(h, n) ==
  /\ hint[h] = NoHint \/ size[h] + n <= hint[h]
  /\ size' = [size EXCEPT ![h] = @ + n]
  /\ pc' = [pc EXCEPT ![h] = "write"]
  /\ UNCHANGED <<status, fault, holds>>

\* body.next() yields Some(Ok(chunk)) of n bytes: size += n, then the ceiling check.
ChunkRead(h, n) ==
  /\ hint[h] = NoHint \/ size[h] + n <= hint[h]
  /\ size' = [size EXCEPT ![h] = @ + n]
  /\ IF TooLarge(size[h] + n)
       THEN /\ Finish(h, PAYLOAD_TOO_LARGE)
            /\ UNCHANGED fault
       ELSE /\ pc' = [pc EXCEPT ![h] = "write"]
            /\ UNCHANGED <<status, fault, holds>>

NextChunk(h) ==
  /\ pc[h] = "body"
  /\ \/ ReadFailed(h)
     \/ BodyEnd(h)
     \/ \E n \in ChunkLens : ChunkRead(h, n)
  /\ UNCHANGED <<hid, wr, hint, sent, c2s, recv, dropCloses, order>>
  /\ UNCHANGED sessVars
  /\ UNCHANGED <<sse, outVars, idVars, codecVars, toolVars>>

\* Faulty variant of WriteFailed: the write's error is dropped.
WriteFailedIgnored(h) ==
  /\ fault' = [fault EXCEPT ![h] = "write"]
  /\ pc' = [pc EXCEPT ![h] = IF pc[h] = "write" THEN "body" ELSE "ret"]
  /\ sent' = [sent EXCEPT ![h] = IF pc[h] = "write" THEN size[h] ELSE @]
  /\ UNCHANGED <<status, holds, c2s>>

\* A write on the pipe fails: map_err(|_| INTERNAL_SERVER_ERROR)?
WriteFailed(h) ==
  /\ fault' = [fault EXCEPT ![h] = "write"]
  /\ Finish(h, INTERNAL_SERVER_ERROR)
  /\ UNCHANGED <<sent, c2s>>

\* Faulty variant of WriteSome: write(&chunk) for write_all(&chunk), so what
\* does not fit is lost.
WriteOnce(h) ==
  LET s == wr[h]
      k == Min(size[h] - sent[h], Avail(s))
  IN /\ k > 0
     /\ c2s' = [c2s EXCEPT ![s] = @ \o Bytes(h, sent[h] + 1, sent[h] + k)]
     /\ sent' = [sent EXCEPT ![h] = size[h]]
     /\ pc' = [pc EXCEPT ![h] = "body"]
     /\ UNCHANGED <<status, fault, holds>>

\* One poll_write of write_all(&chunk): as many of the chunk's bytes as fit;
\* a full pipe leaves the writer waiting.
WriteSome(h) ==
  LET s == wr[h]
      k == Min(size[h] - sent[h], Avail(s))
  IN /\ k > 0
     /\ c2s' = [c2s EXCEPT ![s] = @ \o Bytes(h, sent[h] + 1, sent[h] + k)]
     /\ sent' = [sent EXCEPT ![h] = @ + k]
     /\ pc' = [pc EXCEPT ![h] = IF sent[h] + k = size[h] THEN "body" ELSE "write"]
     /\ UNCHANGED <<status, fault, holds>>

WriteChunk(h) ==
  /\ pc[h] = "write"
  /\ IF PipeBroken(wr[h]) THEN WriteFailed(h) ELSE WriteSome(h)
  /\ UNCHANGED <<hid, wr, hint, size, recv, dropCloses, order>>
  /\ UNCHANGED sessVars
  /\ UNCHANGED <<sse, outVars, idVars, codecVars, toolVars>>

\* Faulty variant of PutNewline: the handler returns without the terminator.
PutNewlineForgotten(h) ==
  /\ pc' = [pc EXCEPT ![h] = "ret"]
  /\ UNCHANGED <<c2s, sent, status, fault, holds>>

\* write_u8(b'\n') puts the terminator into the pipe; a full pipe leaves the
\* writer waiting.
PutNewline(h) ==
  /\ Avail(wr[h]) > 0
  /\ c2s' = [c2s EXCEPT ![wr[h]] = Append(@, Newline(h))]
  /\ pc' = [pc EXCEPT ![h] = "ret"]
  /\ UNCHANGED <<sent, status, fault, holds>>

WriteNewline(h) ==
  /\ pc[h] = "newline"
  /\ IF PipeBroken(wr[h]) THEN WriteFailed(h) ELSE PutNewline(h)
  /\ UNCHANGED <<hid, wr, hint, size, recv, dropCloses, order>>
  /\ UNCHANGED sessVars
  /\ UNCHANGED <<sse, outVars, idVars, codecVars, toolVars>>

\* Ok(StatusCode::ACCEPTED): the guard is dropped as the handler returns.
Return(h) ==
  /\ pc[h] = "ret"
  /\ Finish(h, ACCEPTED)
  /\ order' = [order EXCEPT ![wr[h]] = Append(@, h)]
  /\ UNCHANGED <<hid, wr, hint, size, sent, fault, c2s, recv, dropCloses>>
  /\ UNCHANGED sessVars
  /\ UNCHANGED <<sse, outVars, idVars, codecVars, toolVars>>

\* The ids a connect can draw and a query can name.  Ids are interchangeable,
\* so they are numbered in the order they first appear: an id is one seen
\* before or the next unseen one.
MaxUsed ==
  LET S == {sid[s] : s \in Sess} \cup {hid[h] : h \in Hand}
  IN CHOOSE m \in S : \A x \in S : x <= m

Draw == 1..Min(MaxUsed + 1, MaxIds)

Next ==
  \/ \E id \in Draw : Connect(id)
  \/ \E s \in Sess : \E n \in 1..BUFFER_SIZE : EngineRead(s, n)
  \/ \E s \in Sess : \E res \in {"ok", "err"} : EngineExit(s, res)
  \/ \E s \in Sess : Remove(s)
  \/ \E h \in Hand : \E id \in Draw : Lookup(h, id)
  \/ \E h \in Hand : \E hn \in Hints : Lock(h, hn)
  \/ \E h \in Hand : NextChunk(h)
  \/ \E h \in Hand : WriteChunk(h)
  \/ \E h \in Hand : WriteNewline(h)
  \/ \E h \in Hand : Return(h)

Spec == Init /\ [][Next]_vars

\* The spawned task is scheduled: once run() has returned, the task goes on
\* to its removal as soon as the registry's write lock can be had.
FairRemoval == \A s \in Sess : WF_vars(Remove(s))

SpecFairRemoval == Spec /\ FairRemoval

\* A handler that can take its next step is polled: it gets the free Mutex,
\* writes to a pipe that has room or is broken, and returns.  Nothing makes
\* a client send the rest of its body, so reading the body is left unfair.
FairSubmits ==
  \A h \in Hand :
    /\ WF_vars(\E hn \in Hints : Lock(h, hn))
    /\ WF_vars(WriteChunk(h))
    /\ WF_vars(WriteNewline(h))
    /\ WF_vars(Return(h))

\* A running engine keeps draining its inbound pipe; it may exit at any time.
FairDraining == \A s \in Sess : WF_vars(\E n \in 1..BUFFER_SIZE : EngineRead(s, n))

SpecFairSubmit == Spec /\ FairRemoval /\ FairSubmits /\ FairDraining

\* -------------------------------------------- sse_handler: outward stream
\* A byte the engine writes: a byte of text, a byte that is no UTF-8, and b'\n'.
OutBytes == {"t", "x", "nl"}

\* Bytes the engines have written to their server-to-client pipes so far.
RECURSIVE OutUpTo(_)
OutUpTo(k) == IF k = 0 THEN 0 ELSE OutUpTo(k - 1) + Len(got[k]) + Len(s2c[k])

TotalOut == OutUpTo(MaxSessions)

\* The Sse body, and s2c_read inside it, is gone: the stream ended or the
\* client went away.
StreamGone(s) == sse[s] \in {"eof", "error", "dropped"}

\* The engine of session s writes one byte to its server-to-client pipe; a
\* full pipe leaves it waiting.
EngineWrite(s, b) ==
  /\ engine[s] = "running"
  /\ TotalOut < MaxOut
  /\ Len(s2c[s]) < BUFFER_SIZE
  /\ ~(dropCloses /\ StreamGone(s))
  /\ s2c' = [s2c EXCEPT ![s] = Append(@, b)]
  /\ UNCHANGED <<got, rd, events, sse, c2s, recv, dropCloses, order>>
  /\ UNCHANGED <<sessVars, handVars, idVars, codecVars, toolVars>>

\* The client goes away: hyper drops the response body, and with it the
\* stream and s2c_read.  Nothing else is tied to the stream: the spawned task
\* and the registry are left as they are.
Disconnect(s) ==
  /\ sse[s] \in {"endpoint", "frames"}
  /\ sse' = [sse EXCEPT ![s] = "dropped"]
  /\ UNCHANGED <<outVars, c2s, recv, dropCloses, order>>
  /\ UNCHANGED <<sessVars, handVars, idVars, codecVars, toolVars>>

\* Faulty variant of EndpointEvent: the event is named like the others.
EndpointAsMessage(s) == [event |-> "message", data |-> <<"?sessionId=">>, id |-> sid[s]]

\* Event::default().event("endpoint").data(format!("?sessionId={session}"))
EndpointEvent(s) == [event |-> "endpoint", data |-> <<"?sessionId=">>, id |-> sid[s]]

\* stream::once(..): the first poll of the stream yields the endpoint event.
SseEndpoint(s) ==
  /\ sse[s] = "endpoint"
  /\ events' = [events EXCEPT ![s] = Append(@, EndpointEvent(s))]
  /\ sse' = [sse EXCEPT ![s] = "frames"]
  /\ UNCHANGED <<s2c, got, rd, c2s, recv, dropCloses, order>>
  /\ UNCHANGED <<sessVars, handVars, idVars, codecVars, toolVars>>

\* The buffer holds a delimiter.
HasFrame(buf) == \E i \in 1..Len(buf) : buf[i] = "nl"

\* Faulty variant of Decode: the buffer is cut at its last delimiter.
DecodeAtLastDelimiter(buf) ==
  LET i == CHOOSE k \in 1..Len(buf) : buf[k] = "nl" /\ \A j \in (k + 1)..Len(buf) : buf[j] # "nl"
  IN [frame |-> SubSeq(buf, 1, i - 1), rest |-> SubSeq(buf, i + 1, Len(buf))]

\* Faulty variant of Decode: the bytes after the frame are thrown away.
DecodeDropsRest(buf) ==
  LET i == CHOOSE k \in 1..Len(buf) : buf[k] = "nl" /\ \A j \in 1..(k - 1) : buf[j] # "nl"
  IN [frame |-> SubSeq(buf, 1, i - 1), rest |-> <<>>]

\* JsonRpcFrameCodec::decode on a buffer that holds a delimiter: the bytes
\* before the first delimiter are the frame, the bytes after it stay.
Decode(buf) ==
  LET i == CHOOSE k \in 1..Len(buf) : buf[k] = "nl" /\ \A j \in 1..(k - 1) : buf[j] # "nl"
  IN [frame |-> SubSeq(buf, 1, i - 1), rest |-> SubSeq(buf, i + 1, Len(buf))]

\* FramedRead fills its buffer from the pipe when the buffer holds no frame.
SseRead(s, n) ==
  /\ sse[s] = "frames"
  /\ ~HasFrame(rd[s])
  /\ n \in 1..Len(s2c[s])
  /\ rd' = [rd EXCEPT ![s] = @ \o SubSeq(s2c[s], 1, n)]
  /\ got' = [got EXCEPT ![s] = @ \o SubSeq(s2c[s], 1, n)]
  /\ s2c' = [s2c EXCEPT ![s] = SubSeq(@, n + 1, Len(@))]
  /\ UNCHANGED <<events, sse, c2s, recv, dropCloses, order>>
  /\ UNCHANGED <<sessVars, handVars, idVars, codecVars, toolVars>>

\* std::str::from_utf8(bytes.as_ref()) is Ok
IsText(frame) == \A i \in 1..Len(frame) : frame[i] # "x"

\* Event::default().event("message").data(message)
MessageEvent(frame) == [event |-> "message", data |-> frame, id |-> 0]

\* An Err(io::Error) item of the stream: it is no event.
ErrorItem == [event |-> "error", data |-> <<>>, id |-> 0]

\* Faulty variant of AfterError: and_then by itself does not end a stream
\* after an Err item.
AfterErrorGoesOn == "frames"

\* The stream after it yielded an Err item: the response body fails with it
\* and is dropped, so the stream is polled no more.
AfterError == "error"

\* Faulty variant of Relay: a frame that is no text is skipped.
RelaySkipsBadFrame(s, frame) ==
  /\ events' = [events EXCEPT ![s] = IF IsText(frame) THEN Append(@, MessageEvent(frame)) ELSE @]
  /\ UNCHANGED sse

\* The and_then closure on one decoded frame: a message event for text, an
\* error item otherwise.
Relay(s, frame) ==
  IF IsText(frame)
    THEN /\ events' = [events EXCEPT ![s] = Append(@, MessageEvent(frame))]
         /\ UNCHANGED sse
    ELSE /\ events' = [events EXCEPT ![s] = Append(@, ErrorItem)]
         /\ sse' = [sse EXCEPT ![s] = AfterError]

\* FramedRead yields the next frame of its buffer, and the closure relays it.
SseFrame(s) ==
  /\ sse[s] = "frames"
  /\ HasFrame(rd[s])
  /\ rd' = [rd EXCEPT ![s] = Decode(@).rest]
  /\ Relay(s, Decode(rd[s]).frame)
  /\ UNCHANGED <<s2c, got, c2s, recv, dropCloses, order>>
  /\ UNCHANGED <<sessVars, handVars, idVars, codecVars, toolVars>>

\* The pipe is empty and its write half is gone with the engine's transport:
\* poll_read answers end-of-stream.
AtEof(s) == dropCloses /\ ReaderDropped(s) /\ s2c[s] = <<>>

\* FramedRead at end-of-stream: the stream ends; bytes left without a
\* delimiter make decode_eof fail first ("bytes remaining on stream") unless
\* the codec overrides it (silent).
SseEof(s, silent) ==
  /\ sse[s] = "frames"
  /\ ~HasFrame(rd[s])
  /\ AtEof(s)
  /\ IF rd[s] = <<>> \/ silent
       THEN /\ sse' = [sse EXCEPT ![s] = "eof"]
            /\ UNCHANGED events
       ELSE /\ sse' = [sse EXCEPT ![s] = AfterError]
            /\ events' = [events EXCEPT ![s] = Append(@, ErrorItem)]
  /\ UNCHANGED <<s2c, got, rd, c2s, recv, dropCloses, order>>
  /\ UNCHANGED <<sessVars, handVars, idVars, codecVars, toolVars>>

\* The requests made in a behaviour of SpecOut.
OutHand == 1..MaxOutSubmits

NextOut ==
  \/ \E id \in Draw : nsess < MaxOutSessions /\ Connect(id)
  \/ \E s \in Sess : \E n \in 1..BUFFER_SIZE : EngineRead(s, n)
  \/ \E s \in Sess : \E res \in {"ok", "err"} : EngineExit(s, res)
  \/ \E s \in Sess : Remove(s)
  \/ \E s \in Sess : \E b \in OutBytes : EngineWrite(s, b)
  \/ \E s \in Sess : Disconnect(s)
  \/ \E s \in Sess : SseEndpoint(s)
  \/ \E s \in Sess : \E n \in 1..BUFFER_SIZE : SseRead(s, n)
  \/ \E s \in Sess : SseFrame(s)
  \/ \E s \in Sess : \E silent \in BOOLEAN : SseEof(s, silent)
  \/ \E h \in OutHand : \E id \in Draw : Lookup(h, id)
  \/ \E h \in OutHand : \E hn \in Hints : Lock(h, hn)
  \/ \E h \in OutHand : NextChunk(h)
  \/ \E h \in OutHand : WriteChunk(h)
  \/ \E h \in OutHand : WriteNewline(h)
  \/ \E h \in OutHand : Return(h)

SpecOut == Init /\ [][NextOut]_vars

\* The sessions' lives side by side: connects, engines, streams and clients
\* going away, with no submit under way.
NextLife ==
  \/ \E id \in Draw : Connect(id)
  \/ \E s \in Sess : \E res \in {"ok", "err"} : EngineExit(s, res)
  \/ \E s \in Sess : Remove(s)
  \/ \E s \in Sess : \E b \in OutBytes : EngineWrite(s, b)
  \/ \E s \in Sess : Disconnect(s)
  \/ \E s \in Sess : SseEndpoint(s)
  \/ \E s \in Sess : \E n \in 1..BUFFER_SIZE : SseRead(s, n)
  \/ \E s \in Sess : SseFrame(s)
  \/ \E s \in Sess : \E silent \in BOOLEAN : SseEof(s, silent)

SpecLife == Init /\ [][NextLife]_vars

\* Connects, the first poll of each stream, the engines' exits and the
\* lookups of arriving submits: what decides between Not-Found and a handle.
NextAnnounce ==
  \/ \E id \in Draw : Connect(id)
  \/ \E s \in Sess : \E res \in {"ok", "err"} : EngineExit(s, res)
  \/ \E s \in Sess : Remove(s)
  \/ \E s \in Sess : SseEndpoint(s)
  \/ \E h \in Hand : \E id \in Draw : Lookup(h, id)

SpecAnnounce == Init /\ [][NextAnnounce]_vars

\* ------------------------------------------------------------- session_id
\* The characters {:x} writes for the digit values 0..15.
HexDigits ==
  <<"0", "1", "2", "3", "4", "5", "6", "7", "8", "9", "a", "b", "c", "d", "e", "f">>

\* {:x} of the value with the digits d: its hex digits from the first one
\* that is not zero, a single "0" for the value zero.
LowerHex(d) ==
  LET nz == {i \in 1..Len(d) : d[i] # 0}
      first == IF nz = {} THEN Len(d) ELSE CHOOSE i \in nz : \A j \in nz : i <= j
  IN [k \in 1..(Len(d) - first + 1) |-> HexDigits[d[first + k - 1] + 1]]

\* The 0 flag with a width: zeros in front up to the width, nothing cut.
ZeroPad(str, width) ==
  IF Len(str) >= width THEN str
  ELSE [k \in 1..(width - Len(str)) |-> "0"] \o str

\* format!("{:016x}", rand::random::<u128>())
FormatId(r) == ZeroPad(LowerHex(r), HEX_MIN_WIDTH)

\* The values drawn for rand::random::<u128>(): every count of leading zero
\* digits, with three fillings of the digits after them.
Randoms ==
  {[i \in 1..U128_DIGITS |->
      IF i <= z THEN 0 ELSE IF i = z + 1 THEN d ELSE (d + i) % 16] :
     z \in 0..U128_DIGITS, d \in {1, 10, 15}}

InitId ==
  /\ InitBridge
  /\ rnd \in Randoms
  /\ IdleCodec
  /\ NewRouter

\* session_id(): the string made of the value drawn.
SessionId ==
  /\ idstr = <<>>
  /\ idstr' = FormatId(rnd)
  /\ UNCHANGED <<sessVars, handVars, outVars, c2s, recv, dropCloses, order, sse, rnd>>
  /\ UNCHANGED <<codecVars, toolVars>>

NextId == SessionId

SpecId == InitId /\ [][NextId]_vars

\* ------------------------------------------------------ JsonRpcFrameCodec
\* The byte streams a reader may hand to the codec.
Streams == UNION {[1..n -> OutBytes] : n \in 0..MaxStream}

InitCodec ==
  /\ InitBridge
  /\ IdleId
  /\ cstream \in Streams
  /\ cpos = 0
  /\ cbuf = <<>>
  /\ cout = <<>>
  /\ cstep = "new"
  /\ cfeeds = 0
  /\ NewRouter

\* Faulty variant of DecodeResult: bytes without a delimiter are handed out
\* as a frame.
DecodeResultFlushes(buf) ==
  IF HasFrame(buf) THEN [item |-> <<Decode(buf).frame>>, rest |-> Decode(buf).rest]
  ELSE IF buf # <<>> THEN [item |-> <<buf>>, rest |-> <<>>]
  ELSE [item |-> <<>>, rest |-> buf]

\* Faulty variant of DecodeResult: a frame of no bytes is consumed and not
\* handed out.
DecodeResultSkipsEmpty(buf) ==
  IF HasFrame(buf) /\ Decode(buf).frame # <<>>
  THEN [item |-> <<Decode(buf).frame>>, rest |-> Decode(buf).rest]
  ELSE IF HasFrame(buf) THEN [item |-> <<>>, rest |-> Decode(buf).rest]
  ELSE [item |-> <<>>, rest |-> buf]

\* JsonRpcFrameCodec::decode(&mut buf): Ok(Some(frame)) with the buffer cut
\* after the first delimiter, or Ok(None) with the buffer as it was.  item is
\* the Option, a sequence of at most one frame.
DecodeResult(buf) ==
  IF HasFrame(buf) THEN [item |-> <<Decode(buf).frame>>, rest |-> Decode(buf).rest]
  ELSE [item |-> <<>>, rest |-> buf]

\* The reader appends the next n bytes of the stream to the buffer.
CodecExtend(n) ==
  /\ n \in 1..(Len(cstream) - cpos)
  /\ cbuf' = cbuf \o SubSeq(cstream, cpos + 1, cpos + n)
  /\ cpos' = cpos + n
  /\ cfeeds' = cfeeds + 1
  /\ cstep' = "extend"
  /\ UNCHANGED <<cstream, cout>>
  /\ UNCHANGED <<sessVars, handVars, outVars, idVars, c2s, recv, dropCloses, order, sse>>
  /\ UNCHANGED toolVars

\* codec.decode(&mut buffer)
CodecDecode ==
  /\ cbuf' = DecodeResult(cbuf).rest
  /\ cout' = cout \o DecodeResult(cbuf).item
  /\ cstep' = IF DecodeResult(cbuf).item = <<>> THEN "none" ELSE "frame"
  /\ UNCHANGED <<cstream, cpos, cfeeds>>
  /\ UNCHANGED <<sessVars, handVars, outVars, idVars, c2s, recv, dropCloses, order, sse>>
  /\ UNCHANGED toolVars

NextCodec ==
  \/ \E n \in 1..MaxStream : CodecExtend(n)
  \/ CodecDecode

SpecCodec == InitCodec /\ [][NextCodec]_vars

\* --------------------------------------------------- tools/docs: DocRouter
bridgeVars == <<sessVars, handVars, outVars, idVars, c2s, recv, dropCloses, order, sse>>

\* The keys the drawn calls can build, which a caller of the public cache
\* may also write.
UsedKeys == {<<"a">>, <<"a", "b">>, <<"a", "b", "b">>}
Markdowns == {ParseHtml(h) : h \in Pages}

\* HashMap::get(key).cloned()
CacheLookup(m, k) == m[k]

\* Faulty variant of Insert: an entry already there is kept.
InsertIfAbsent(m, k, v) == IF m[k] = <<>> THEN [m EXCEPT ![k] = <<v>>] ELSE m

\* HashMap::insert(key, value)
Insert(m, k, v) == [m EXCEPT ![k] = <<v>>]

\* lookup_crate's arguments: the message of the error, none if they are good.
CrateArgsError(args) ==
  IF AsStr(args.crate_name) = <<>> THEN <<"crate_name is required">> ELSE <<>>

\* search_crates' arguments.
SearchArgsError(args) ==
  IF AsStr(args.query) = <<>> THEN <<"query is required">> ELSE <<>>

\* Faulty variant of ItemArgsError: item_path is looked at first.
ItemArgsErrorPathFirst(args) ==
  IF AsStr(args.item_path) = <<>> THEN <<"item_path is required">>
  ELSE IF AsStr(args.crate_name) = <<>> THEN <<"crate_name is required">>
  ELSE <<>>

\* lookup_item's arguments: crate_name, then item_path.
ItemArgsError(args) ==
  IF AsStr(args.crate_name) = <<>> THEN <<"crate_name is required">>
  ELSE IF AsStr(args.item_path) = <<>> THEN <<"item_path is required">>
  ELSE <<>>

\* The request lookup_crate sends.
CrateUrl(crate, ver) ==
  [parts |-> IF ver # <<>> THEN <<"https://docs.rs/crate/", crate, "/", ver[1], "/">>
           ELSE <<"https://docs.rs/crate/", crate, "/">>,
   per_page |-> 0 - 1]

\* The request search_crates sends.
SearchUrl(query, limit) ==
  [parts |-> <<"https://crates.io/api/v1/crates?q=", query, "&per_page=">>,
   per_page |-> PerPage(limit)]

\* The request lookup_item sends for the k-th kind.  The item paths drawn
\* have one segment, so module_path is empty.
ItemUrl(crate, item, ver, k) ==
  [parts |-> <<"https://docs.rs/", crate, "/", IF ver # <<>> THEN ver[1] ELSE "latest",
             "/", crate, "/", item_types[k], ".", item, ".html">>,
   per_page |-> 0 - 1]

\* The future with the locals loc returns res: what it was called with,
\* what it returned, and what it did on the way (got, nreq, looked) stay on
\* record, its other locals are dropped.
Finished(loc, res) ==
  [IdleCall EXCEPT !.pc = "done", !.tool = loc.tool, !.args = loc.args,
                   !.result = res, !.got = loc.got,
                   !.nreq = loc.nreq, !.looked = loc.looked]

\* call_tool(tool_name, arguments), polled up to its first await: the match
\* on the name, the reading of the arguments, and for the lookups the cache
\* key; search_crates has no cache and builds its URL at once.
CallTool(c, name, args) ==
  /\ call[c].pc = "idle"
  /\ LET loc == [IdleCall EXCEPT !.tool = name, !.args = args]
         crate == AsStr(args.crate_name)
         ver == AsStr(args.version)
         item == AsStr(args.item_path)
         query == AsStr(args.query)
     IN call' = [call EXCEPT ![c] =
          IF name = "lookup_crate"
          THEN IF CrateArgsError(args) # <<>>
               THEN Finished(loc, InvalidParameters(CrateArgsError(args)))
               ELSE [loc EXCEPT !.pc = "get", !.key = CrateKey(crate[1], ver)]
          ELSE IF name = "search_crates"
          THEN IF SearchArgsError(args) # <<>>
               THEN Finished(loc, InvalidParameters(SearchArgsError(args)))
               ELSE [loc EXCEPT !.pc = "fetch", !.url = SearchUrl(query[1], LimitOf(args.limit))]
          ELSE IF name = "lookup_item"
          THEN IF ItemArgsError(args) # <<>>
               THEN Finished(loc, InvalidParameters(ItemArgsError(args)))
               ELSE [loc EXCEPT !.pc = "get", !.key = ItemKey(crate[1], item[1], ver)]
          ELSE Finished(loc, ToolErrorNotFound(name))]
  /\ UNCHANGED <<cache, cmutex, latest>>
  /\ UNCHANGED <<bridgeVars, codecVars>>

\* self.cache.lock().await, in DocCache::get and DocCache::set
CacheLock(c) ==
  /\ call[c].pc \in {"get", "set"}
  /\ cmutex = 0
  /\ cmutex' = c
  /\ call' = [call EXCEPT ![c].pc = IF @ = "get" THEN "getlocked" ELSE "setlocked"]
  /\ UNCHANGED <<cache, latest>>
  /\ UNCHANGED <<bridgeVars, codecVars>>

\* DocCache::get under the lock, and what lookup_crate and lookup_item do
\* with its result: a hit is returned, a miss goes on to build the URL of
\* the first request.
CacheGet(c) ==
  /\ call[c].pc = "getlocked"
  /\ LET hit == CacheLookup(cache, call[c].key)
         loc == [call[c] EXCEPT !.looked = TRUE, !.got = hit]
         crate == AsStr(loc.args.crate_name)[1]
         ver == AsStr(loc.args.version)
     IN call' = [call EXCEPT ![c] =
          IF hit # <<>> THEN Finished(loc, Ok(hit[1]))
          ELSE IF loc.tool = "lookup_item"
          THEN [loc EXCEPT !.pc = "fetch", !.kind = 1,
                           !.url = ItemUrl(crate, AsStr(loc.args.item_path)[1], ver, 1)]
          ELSE [loc EXCEPT !.pc = "fetch", !.url = CrateUrl(crate, ver)]]
  /\ cmutex' = 0
  /\ UNCHANGED <<cache, latest>>
  /\ UNCHANGED <<bridgeVars, codecVars>>

\* What a request can come to: send() fails, the status is no success,
\* text() fails, or a body arrives.
Failures == {"senderr", "status404", "texterr"}
Outcomes(name) == Failures \cup Pages \cup (IF name = "search_crates" THEN JsonBodies ELSE {})

\* Faulty variant of FetchCrate: the answer to a failed request is cached too.
FetchCrateCachesFailure(loc, out) ==
  LET asked == [loc EXCEPT !.nreq = @ + 1]
  IN [asked EXCEPT !.pc = "set", !.doc = IF out \in Pages THEN ParseHtml(out) ELSE out]

\* lookup_crate from its request on.
FetchCrate(loc, out) ==
  LET asked == [loc EXCEPT !.nreq = @ + 1]
  IN IF out = "senderr"
     THEN Finished(asked, ExecutionError(<<"Failed to fetch documentation: ", "send">>))
     ELSE IF out = "status404"
     THEN Finished(asked, ExecutionError(<<"Failed to fetch documentation. Status: ", "404">>))
     ELSE IF out = "texterr"
     THEN Finished(asked, ExecutionError(<<"Failed to read response body: ", "text">>))
     ELSE [asked EXCEPT !.pc = "set", !.doc = ParseHtml(out)]

\* search_crates.
FetchSearch(loc, out) ==
  LET asked == [loc EXCEPT !.nreq = @ + 1]
  IN IF out = "senderr"
     THEN Finished(asked, ExecutionError(<<"Failed to search crates.io: ", "send">>))
     ELSE IF out = "status404"
     THEN Finished(asked, ExecutionError(<<"Failed to search crates.io. Status: ", "404">>))
     ELSE IF out = "texterr"
     THEN Finished(asked, ExecutionError(<<"Failed to read response body: ", "text">>))
     ELSE Finished(asked, Ok(IF out \in JsonBodies THEN out ELSE ParseHtml(out)))

\* One round of lookup_item's loop over item_types.
FetchItem(loc, out) ==
  LET asked == [loc EXCEPT !.nreq = @ + 1]
      err == IF out = "senderr" THEN <<"send">> ELSE <<"Status code: 404">>
  IN IF out = "texterr"
     THEN Finished(asked, ExecutionError(<<"Failed to read response body: ", "text">>))
     ELSE IF out \in Pages
     THEN [asked EXCEPT !.pc = "set", !.doc = ParseHtml(out)]
     ELSE IF loc.kind < Len(item_types)
     THEN [asked EXCEPT !.kind = @ + 1, !.last_error = err,
                         !.url = ItemUrl(AsStr(loc.args.crate_name)[1], AsStr(loc.args.item_path)[1],
                                         AsStr(loc.args.version), loc.kind + 1)]
     ELSE Finished(asked, ExecutionError(
            <<"Failed to fetch item documentation. No matching item found. Last error: ">> \o err))

\* self.client.get(&url)...send().await with what follows it up to the next
\* await on the cache or the return.
Fetch(c, out) ==
  /\ call[c].pc = "fetch"
  /\ out \in Outcomes(call[c].tool)
  /\ call' = [call EXCEPT ![c] =
       IF @.tool = "lookup_crate" THEN FetchCrate(@, out)
       ELSE IF @.tool = "search_crates" THEN FetchSearch(@, out)
       ELSE FetchItem(@, out)]
  /\ UNCHANGED <<cache, cmutex, latest>>
  /\ UNCHANGED <<bridgeVars, codecVars>>

\* DocCache::set under the lock, and the return of the markdown.
CacheSet(c) ==
  /\ call[c].pc = "setlocked"
  /\ cache' = Insert(cache, call[c].key, call[c].doc)
  /\ latest' = [latest EXCEPT ![call[c].key] = <<call[c].doc>>]
  /\ cmutex' = 0
  /\ call' = [call EXCEPT ![c] = Finished(@, Ok(@.doc))]
  /\ UNCHANGED <<bridgeVars, codecVars>>

\* The caller has taken the result of call c and can make its next call.
Drop(c) ==
  /\ call[c].pc = "done"
  /\ call' = [call EXCEPT ![c] = IdleCall]
  /\ UNCHANGED <<cache, cmutex, latest>>
  /\ UNCHANGED <<bridgeVars, codecVars>>

\* router.cache.set(key, value) by a holder of the router, as the tests do.
DirectSet(k, v) ==
  /\ cmutex = 0
  /\ cache' = Insert(cache, k, v)
  /\ latest' = [latest EXCEPT ![k] = <<v>>]
  /\ UNCHANGED <<cmutex, call>>
  /\ UNCHANGED <<bridgeVars, codecVars>>

NextTools ==
  \/ \E c \in Calls : \E name \in ToolNames : \E args \in ArgsOf(name) : CallTool(c, name, args)
  \/ \E c \in Calls : CacheLock(c)
  \/ \E c \in Calls : CacheGet(c)
  \/ \E c \in Calls : \E out \in Failures \cup Pages \cup JsonBodies : Fetch(c, out)
  \/ \E c \in Calls : CacheSet(c)
  \/ \E c \in Calls : Drop(c)
  \/ \E k \in UsedKeys : \E v \in Markdowns : DirectSet(k, v)

\* One router with its calls; the bridge is left out of it.
InitTools == Init /\ dropCloses

SpecTools == InitTools /\ [][NextTools]_vars

\* search_crates by itself, over the wide range of limits.
NextLimit ==
  \/ \E l \in WideLimitArgs :
       CallTool(1, "search_crates", [NoArgs EXCEPT !.query = Str("a"), !.limit = l])
  \/ \E out \in Failures \cup Pages \cup JsonBodies : Fetch(1, out)
  \/ Drop(1)

SpecLimit == InitTools /\ [][NextLimit]_vars

\* ------------------------------------------------------------------ claims
\* Request h arrives in this step: its registry lookup is made.
Arrives(h) == pc[h] = "idle" /\ pc'[h] # "idle"

\* The spawned task of session s is over: run returned and the removal ran.
TaskOver(s) == engine[s] = "done"

\* Some session that was given this id has its spawned task over.
IdOfOverTask(id) == \E s \in Sess : sid[s] = id /\ TaskOver(s)

\* C1, as stated: once the spawned task of a session is over, every submit
\* to that session's id that arrives afterwards is answered 404.
C1_NotFoundEverAfter ==
  [][\A h \in Hand :
       (Arrives(h) /\ IdOfOverTask(hid'[h])) => status'[h] = NOT_FOUND]_vars

\* C1, amended: the step that ends a session's spawned task leaves the
\* session's id absent from the registry; an absent id becomes present again
\* only by a connect that draws that same id; and a submit that arrives while
\* the id is absent is answered 404.  So every submit to the id after the
\* task is over is answered 404 until a later connect registers the id again.
C1_AbsentUntilReconnected ==
  [][/\ \A s \in Sess :
          (~TaskOver(s) /\ TaskOver(s)') => txs'[sid[s]] = 0
     /\ \A id \in Ids :
          (txs[id] = 0 /\ txs'[id] # 0) =>
             (nsess' = nsess + 1 /\ sid'[nsess'] = id /\ txs'[id] = nsess')
     /\ \A h \in Hand :
          (Arrives(h) /\ txs[hid'[h]] = 0) =>
             (status'[h] = NOT_FOUND /\ pc'[h] = "done")]_vars

\* C1's case: request 1 was accepted by the only session, whose task is now
\* over, and request 2, which arrived later with the same id, got 404.
C1_Witness ==
  /\ nsess = 1
  /\ TaskOver(1)
  /\ status[1] = ACCEPTED
  /\ hid[1] = sid[1]
  /\ hid[2] = sid[1]
  /\ status[2] = NOT_FOUND

\* The byte at place i of a stream is the newline of some request.
IsNewline(st, i) == st[i][2] = 0

\* The byte at place i of stream st stands where a whole frame needs it: a
\* first body byte opens a frame (the stream starts there or a newline
\* precedes it), a later body byte follows the byte before it of the same
\* body, and a newline follows the last byte of its writer's whole body.
InWholeFrame(st, i) ==
  LET h == st[i][1]
      k == st[i][2]
      opens == i = 1 \/ IsNewline(st, i - 1)
  IN IF k = 1 THEN opens
     ELSE IF k > 1 THEN i > 1 /\ st[i - 1] = <<h, k - 1>>
     ELSE IF size[h] = 0 THEN opens
     ELSE i > 1 /\ st[i - 1] = <<h, size[h]>>

\* The bytes written to session s's pipe are whole frames, one submit's
\* body and its newline each, the last one possibly still being written.
WholeFrames(s) == \A i \in 1..Len(Stream(s)) : InWholeFrame(Stream(s), i)

\* Request h ended without Accepted (with 413, 400 or 500) after it had
\* forwarded body bytes.
AbortedMidBody(h) == pc[h] = "done" /\ status[h] # ACCEPTED /\ sent[h] > 0

C3_ExclusiveHold ==
  /\ [](\A g, h \in Hand : (g # h /\ holds[g] /\ holds[h]) => wr[g] # wr[h])
  /\ [](\A h \in Hand : pc[h] \in {"body", "write", "newline", "ret"} => holds[h])
  /\ [][\A h \in Hand :
          /\ (holds[h] /\ ~holds'[h]) => pc'[h] = "done"
          /\ (\E s \in Sess : \E i \in 1..Len(Stream(s)') :
                 i > Len(Stream(s)) /\ Stream(s)'[i][1] = h)
               => (holds[h] /\ Stream(wr[h])' # Stream(wr[h]))]_vars

\* C3's case: request 1 holds the handle in the middle of its body while
\* request 2 waits for the lock of the same session.
C3_Witness ==
  /\ holds[1]
  /\ pc[1] = "write"
  /\ sent[1] > 0
  /\ pc[2] = "lock"
  /\ wr[2] = wr[1]

\* The bytes request h wrote into the stream st, in stream order.
OwnBytes(st, h) == LET Own(b) == b[1] = h IN SelectSeq(st, Own)

\* C4: a submit that returned 202 has put into the pipe of the session it
\* looked up exactly its body bytes, in order, then one newline, and it has
\* put nothing into any other session's pipe.
C4_AcceptedWroteBodyAndNewline ==
  \A h \in Hand :
    status[h] = ACCEPTED =>
      /\ OwnBytes(Stream(wr[h]), h) = Bytes(h, 1, size[h]) \o <<Newline(h)>>
      /\ \A s \in Sess : s # wr[h] => OwnBytes(Stream(s), h) = <<>>

\* C4's case: an accepted body of as many bytes as the ceiling allows, which
\* is more than the pipe holds at once.
C4_Witness ==
  \E h \in Hand :
    /\ status[h] = ACCEPTED
    /\ size[h] = BODY_BYTES_LIMIT
    /\ size[h] > BUFFER_SIZE \/ Len(Stream(wr[h])) > BUFFER_SIZE

\* The requests whose newline is in the stream st, in stream order.
FrameOrder(st) ==
  LET Nl(b) == b[2] = 0
      nls == SelectSeq(st, Nl)
  IN [i \in 1..Len(nls) |-> nls[i][1]]

\* C5: the frames of the submits that have returned stand in the session's
\* stream in the order in which those submits returned.
C5_FramesInCompletionOrder ==
  \A s \in Sess :
    LET Returned(h) == pc[h] = "done"
    IN SelectSeq(FrameOrder(Stream(s)), Returned) = order[s]

\* C5's case: two submits returned in the order 2, 1 and both frames are in
\* the stream.
C5_Witness ==
  \E s \in Sess : order[s] = <<2, 1>> /\ FrameOrder(Stream(s)) = <<2, 1>>

\* C6: a submit whose id has no registry entry is answered 404 in the step
\* of its lookup, which changes no pipe and no registry entry, reads no
\* body byte, clones no handle and locks none.
C6_UnknownIdTouchesNothing ==
  /\ [][\A h \in Hand :
          (Arrives(h) /\ txs[hid'[h]] = 0) =>
             /\ status'[h] = NOT_FOUND
             /\ pc'[h] = "done"
             /\ UNCHANGED <<txs, c2s, recv, holds, size, sent, wr>>]_vars
  /\ [](\A h \in Hand :
          status[h] = NOT_FOUND =>
             /\ wr[h] = 0 /\ size[h] = 0 /\ sent[h] = 0 /\ ~holds[h]
             /\ \A s \in Sess : OwnBytes(Stream(s), h) = <<>>)

\* C6's case: a session is running, and a submit that named another id, one
\* with no entry, has been answered 404.
C6_Witness ==
  \E h \in Hand :
    /\ status[h] = NOT_FOUND
    /\ txs[hid[h]] = 0
    /\ \E s \in Sess : engine[s] = "running" /\ txs[sid[s]] = s

\* The body of request h was declared longer than the ceiling.
DeclaredOver(h) == hint[h] # NoHint /\ hint[h] > BODY_BYTES_LIMIT

\* C7: a submit to an existing session whose declared length is over the
\* ceiling ends with 413 and with nothing else, has read no body chunk, and
\* no byte or newline of it is in any pipe.
C7_DeclaredOverCeilingRejected ==
  \A h \in Hand :
    DeclaredOver(h) =>
      /\ pc[h] = "done"
      /\ status[h] = PAYLOAD_TOO_LARGE
      /\ size[h] = 0
      /\ sent[h] = 0
      /\ \A s \in Sess : OwnBytes(Stream(s), h) = <<>>

\* C7's case: a submit declared over the ceiling was answered 413 by a
\* session whose pipe already holds a frame of another submit.
C7_Witness ==
  \E h \in Hand :
    /\ DeclaredOver(h)
    /\ status[h] = PAYLOAD_TOO_LARGE
    /\ wr[h] # 0
    /\ Len(Stream(wr[h])) > 0

\* The whole size of the body of a finished request: the declared length, or
\* the bytes counted when none was declared.
BodySize(h) == IF hint[h] # NoHint THEN hint[h] ELSE size[h]

\* C8: a submit that ends with 202 or 413 (its body read without error, its
\* writes not failed) ends with 413 exactly when its body is more than
\* BODY_BYTES_LIMIT bytes, declared or counted chunk by chunk: a body of
\* exactly BODY_BYTES_LIMIT bytes is accepted.  The source sets the ceiling
\* to 1 << 22 = 4194304.
C8_RejectedIffOverCeiling ==
  /\ BODY_BYTES_LIMIT_SRC = 4194304
  /\ \A h \in Hand :
       status[h] \in {ACCEPTED, PAYLOAD_TOO_LARGE} =>
         (status[h] = PAYLOAD_TOO_LARGE <=> BodySize(h) > BODY_BYTES_LIMIT)
  /\ \A h \in Hand :
       status[h] = ACCEPTED => (size[h] = sent[h] /\ size[h] = BodySize(h))

\* C8's case: both sides of the ceiling, counted chunk by chunk: one body of
\* exactly BODY_BYTES_LIMIT bytes accepted, one of BODY_BYTES_LIMIT + 1
\* bytes rejected.
C8_Witness ==
  \E g, h \in Hand :
    /\ hint[g] = NoHint /\ status[g] = ACCEPTED /\ size[g] = BODY_BYTES_LIMIT
    /\ hint[h] = NoHint /\ status[h] = PAYLOAD_TOO_LARGE
    /\ size[h] = BODY_BYTES_LIMIT + 1

\* C9: a submit whose body read fails ends at once with 400, never with
\* 202; the failing step writes nothing, and a request that has returned
\* writes nothing afterwards.
C9_ReadFailureIsBadRequest ==
  /\ [](\A h \in Hand :
          fault[h] = "read" => (pc[h] = "done" /\ status[h] = BAD_REQUEST))
  /\ [][\A h \in Hand :
          /\ (fault[h] = "none" /\ fault'[h] = "read") =>
                UNCHANGED <<c2s, recv>>
          /\ pc[h] = "done" =>
                \A s \in Sess : OwnBytes(Stream(s)', h) = OwnBytes(Stream(s), h)]_vars

\* C9's case: the read failed after part of the body had been forwarded.
C9_Witness ==
  \E h \in Hand : fault[h] = "read" /\ status[h] = BAD_REQUEST /\ sent[h] > 0

\* C10: a submit that found its session and whose write to the pipe, of a
\* chunk or of the newline, failed ends with 500, never with 202.
C10_WriteFailureIsInternalError ==
  \A h \in Hand :
    fault[h] = "write" =>
      /\ pc[h] = "done"
      /\ status[h] = INTERNAL_SERVER_ERROR
      /\ wr[h] # 0
      /\ ReaderDropped(wr[h])

\* C10's case: the write of the newline failed, after the whole body had
\* gone into the pipe, because the engine had exited.
C10_Witness ==
  \E h \in Hand :
    /\ fault[h] = "write"
    /\ status[h] = INTERNAL_SERVER_ERROR
    /\ size[h] > 0
    /\ sent[h] = size[h]

\* Session s is active: connected, and its spawned task has not yet removed
\* its id from the registry.
Active(s) == engine[s] \in {"running", "returned"}

\* The registry entry of session s's id holds session s's write handle.
Registered(s) == sid[s] # 0 /\ txs[sid[s]] = s

\* C11, as stated: the entry of a session is taken out of the registry only
\* by the last step of that session's own task, after its engine has
\* stopped, and that step runs once; no step of a connect, of a submit or of
\* another session's task deletes or replaces the entry of a session whose
\* engine is still running.
C11_OnlyOwnTaskRemoves ==
  [][\A s \in Sess :
       /\ (Registered(s) /\ ~Registered(s)') =>
             (engine[s] = "returned" /\ engine'[s] = "done")
       /\ (engine[s] = "running" /\ Registered(s)) => Registered(s)'
       /\ engine[s] = "done" => (engine'[s] = "done" /\ ~Registered(s)')]_vars

\* C12, as stated: the id a connect inserts is not yet a key of the
\* registry, so the ids of the sessions active at one time are pairwise
\* distinct and no insert replaces the handle of an active session.
C12_InsertedIdIsFresh ==
  /\ [][nsess' = nsess + 1 => txs[sid'[nsess']] = 0]_vars
  /\ [](\A s, t \in Sess : (s # t /\ Active(s) /\ Active(t)) => sid[s] # sid[t])

\* The characters of a lowercase hexadecimal digit.
LowerHexChars == {HexDigits[i] : i \in 1..16}

\* C13, as stated: whatever 128-bit value the random source returns, the id
\* session_id() makes of it is 32 characters long, each a lowercase
\* hexadecimal digit.
C13_IdIs32LowerHex ==
  idstr # <<>> =>
    /\ Len(idstr) = 32
    /\ \A i \in 1..Len(idstr) : idstr[i] \in LowerHexChars

\* p is a prefix of q.
IsPrefix(p, q) == Len(p) <= Len(q) /\ SubSeq(q, 1, Len(p)) = p

\* Every byte the engine of session s has written to its server-to-client
\* pipe, in write order.
Written(s) == got[s] \o s2c[s]

\* The bytes of session s that FramedRead has turned into frames.
Consumed(s) == SubSeq(got[s], 1, Len(got[s]) - Len(rd[s]))

\* The place of the k-th delimiter of b (0 for k = 0).
NlPlace(b, k) ==
  IF k = 0 THEN 0
  ELSE CHOOSE i \in 1..Len(b) :
         b[i] = "nl" /\ Cardinality({j \in 1..i : b[j] = "nl"}) = k

\* The delimiter-terminated frames of the bytes b, in order, each without
\* its delimiter.
FramesOf(b) ==
  [k \in 1..Cardinality({i \in 1..Len(b) : b[i] = "nl"}) |->
     SubSeq(b, NlPlace(b, k - 1) + 1, NlPlace(b, k) - 1)]

\* The payloads of the message events of session s's stream, in order.
MessagesOf(s) ==
  LET IsMsg(e) == e.event = "message"
      sel == SelectSeq(events[s], IsMsg)
  IN [i \in 1..Len(sel) |-> sel[i].data]

\* The error items of session s's stream.
ErrorsOf(s) == LET IsErr(e) == e.event = "error" IN SelectSeq(events[s], IsErr)

\* C14: the first item of every outward stream is an endpoint event whose
\* payload is "?sessionId=" and the id under which the connect registered
\* the session's write handle; nothing is emitted before it, no second
\* endpoint event follows, and every later item is a message event or an
\* error.
C14_EndpointFirstAndOnce ==
  /\ [](\A s \in Sess :
          /\ sse[s] \in {"none", "endpoint"} => events[s] = <<>>
          /\ sse[s] \in {"frames", "eof", "error"} => events[s] # <<>>
          /\ events[s] # <<>> =>
                /\ events[s][1].event = "endpoint"
                /\ events[s][1].data = <<"?sessionId=">>
                /\ events[s][1].id = sid[s]
                /\ \A i \in 2..Len(events[s]) :
                      events[s][i].event \in {"message", "error"})
  /\ [][\A s \in Sess :
          (sid[s] = 0 /\ sid'[s] # 0) => (txs'[sid'[s]] = s /\ sse'[s] = "endpoint")]_vars

\* C14's case: two sessions with different ids have each emitted their
\* endpoint event, and one has emitted a message event after it.
C14_Witness ==
  /\ sid[1] # sid[2]
  /\ Len(events[2]) = 1
  /\ Len(events[1]) = 3
  /\ events[1][3].event = "message"

\* C15, as stated: the message events of a session's stream are the frames
\* the engine wrote, as far as they have been decoded: the same order, one
\* event to a frame, the frame's bytes as payload, none lost, doubled or
\* split.
C15_MessagesAreFrames ==
  \A s \in Sess : MessagesOf(s) = FramesOf(Consumed(s))

\* C15, amended: the message events are the frames the engine wrote, as far
\* as they have been decoded and up to the first frame that is no text: the
\* same order, one event to a frame, the frame's bytes as payload.  A frame
\* that is no text yields no message event and is the last frame decoded.
C15_MessagesAreTextFrames ==
  \A s \in Sess :
    LET fr == FramesOf(Consumed(s))
        bad == {k \in 1..Len(fr) : ~IsText(fr[k])}
    IN /\ IsPrefix(fr, FramesOf(Written(s)))
       /\ IF bad = {} THEN MessagesOf(s) = fr
          ELSE /\ bad = {Len(fr)}
               /\ MessagesOf(s) = SubSeq(fr, 1, Len(fr) - 1)
               /\ sse[s] = "error"

\* C15's case: two frames have been relayed, the first of which, with its
\* delimiter, is longer than the pipe, so it came through in pieces.
C15_Witness ==
  \E s \in Sess :
    /\ Len(MessagesOf(s)) = 2
    /\ Len(MessagesOf(s)[1]) = BUFFER_SIZE

\* C16: a stream ends at the end-of-stream of its pipe or at a frame that is
\* no text; a stream that has yielded an error item has yielded one, as its
\* last item, and has ended; and a stream that has ended yields nothing more
\* and reads nothing more, whatever the pipe still holds.
C16_EndsAtEofOrDecodeError ==
  /\ [](\A s \in Sess :
          /\ Len(ErrorsOf(s)) <= 1
          /\ Len(ErrorsOf(s)) = 1 <=> sse[s] = "error"
          /\ sse[s] = "error" => events[s][Len(events[s])].event = "error"
          /\ sse[s] = "eof" => (AtEof(s) /\ ~HasFrame(rd[s])))
  /\ [][\A s \in Sess :
          /\ sse[s] \in {"eof", "error"} =>
                (sse'[s] = sse[s] /\ events'[s] = events[s] /\ got'[s] = got[s])
          /\ (sse[s] = "frames" /\ sse'[s] \in {"eof", "error"}) =>
                \/ AtEof(s) /\ ~HasFrame(rd[s])
                \/ HasFrame(rd[s]) /\ ~IsText(FramesOf(rd[s])[1])]_vars

\* C16's case: the stream ended with an error item at a frame that is no
\* text while a whole frame of text was waiting behind it.
C16_Witness ==
  \E s \in Sess :
    /\ sse[s] = "error"
    /\ Len(FramesOf(rd[s] \o s2c[s])) > 0
    /\ IsText(FramesOf(rd[s] \o s2c[s])[1])

\* C17: neither pipe of a session ever holds more than its capacity (1 << 12
\* = 4096 bytes in the source); a writer at a full pipe and a reader at an
\* empty one take no step; and the bytes read from a pipe and the bytes
\* written to it only grow at their ends, the bytes read being a prefix of
\* the bytes written: none is dropped, doubled or moved.
C17_PipesBoundedAndLossless ==
  /\ BUFFER_SIZE_SRC = 4096
  /\ [](\A s \in Sess : Len(c2s[s]) <= BUFFER_SIZE /\ Len(s2c[s]) <= BUFFER_SIZE)
  /\ [](\A h \in Hand :
          /\ (pc[h] = "write" /\ Len(c2s[wr[h]]) = BUFFER_SIZE /\ ~PipeBroken(wr[h]))
                => ~ENABLED WriteChunk(h)
          /\ (pc[h] = "newline" /\ Len(c2s[wr[h]]) = BUFFER_SIZE /\ ~PipeBroken(wr[h]))
                => ~ENABLED WriteNewline(h))
  /\ [](\A s \in Sess :
          /\ c2s[s] = <<>> => \A n \in 1..BUFFER_SIZE : ~ENABLED EngineRead(s, n)
          /\ s2c[s] = <<>> => \A n \in 1..BUFFER_SIZE : ~ENABLED SseRead(s, n)
          /\ Len(s2c[s]) = BUFFER_SIZE => \A b \in OutBytes : ~ENABLED EngineWrite(s, b))
  /\ [][\A s \in Sess :
          /\ IsPrefix(recv[s], recv'[s])
          /\ IsPrefix(Stream(s), Stream(s)')
          /\ IsPrefix(got[s], got'[s])
          /\ IsPrefix(Written(s), Written(s)')
          /\ recv'[s] # recv[s] => Stream(s)' = Stream(s)
          /\ got'[s] # got[s] => Written(s)' = Written(s)]_vars

\* C17's case: the submit waits at a full inbound pipe with its newline
\* still to write while the engine's outbound pipe is full too, and both
\* pipes have been read from before.
C17_Witness ==
  \E h \in Hand :
    /\ pc[h] = "newline"
    /\ Len(c2s[wr[h]]) = BUFFER_SIZE
    /\ Len(s2c[wr[h]]) = BUFFER_SIZE
    /\ got[wr[h]] # <<>>

\* C18: what a submit waits for lies in its own session alone: it can make
\* its lookup whatever other submits do, take the lock as soon as no submit
\* to the same session holds it, read its body, write as soon as its own
\* pipe has room, and return, whatever a submit to another session is
\* waiting for; and a guard a submit holds is that of the one handle it
\* looked up.
C18_OtherSessionNeverBlocks ==
  \A g \in Hand :
    /\ (pc[g] = "idle" /\ \A h \in Hand : h < g => pc[h] # "idle")
          => \A id \in Draw : ENABLED Lookup(g, id)
    /\ (pc[g] = "lock" /\ \A h \in Hand : holds[h] => wr[h] # wr[g])
          => ENABLED (\E hn \in Hints : Lock(g, hn))
    /\ pc[g] = "body" => ENABLED NextChunk(g)
    /\ (pc[g] = "write" /\ (Len(c2s[wr[g]]) < BUFFER_SIZE \/ PipeBroken(wr[g])))
          => ENABLED WriteChunk(g)
    /\ (pc[g] = "newline" /\ (Len(c2s[wr[g]]) < BUFFER_SIZE \/ PipeBroken(wr[g])))
          => ENABLED WriteNewline(g)
    /\ pc[g] = "ret" => ENABLED Return(g)
    /\ holds[g] => wr[g] # 0

\* C18's case: request 1 holds the handle of its session and waits at the
\* full pipe, of which the engine has read nothing, while request 2, which
\* came later and went to another session, has forwarded a body and
\* returned Accepted.
C18_Witness ==
  /\ holds[1]
  /\ pc[1] \in {"write", "newline"}
  /\ Len(c2s[wr[1]]) = BUFFER_SIZE
  /\ recv[wr[1]] = <<>>
  /\ status[2] = ACCEPTED
  /\ size[2] > 0
  /\ wr[2] # wr[1]

\* C19, as stated: the step in which a client goes away leaves the engine
\* tasks and the registry as they are, and from then on, as long as the
\* session's task is not over, its id is in the registry, so that a submit
\* to it finds a handle.
C19_DisconnectKeepsSession ==
  /\ [][\A s \in Sess :
          (sse[s] # "dropped" /\ sse'[s] = "dropped") =>
             (engine' = engine /\ txs' = txs)]_vars
  /\ [](\A s \in Sess :
          (sse[s] = "dropped" /\ Active(s)) => Get(sid[s]) # 0)

\* C20, as stated: the steps that end a session's engine task, whether run
\* returned Ok or Err, touch that session alone: they leave the registry
\* entry, the pipes, the engine task and the stream of every other session
\* as they are; when the task is over the session's entry is gone; once the
\* engine has stopped nothing more is written to its outward pipe; and a
\* connect can still be made.
C20_EngineFailureIsIsolated ==
  /\ [][\A s \in Sess :
          (Active(s) /\ engine'[s] # engine[s]) =>
             \A u \in Sess \ {s} :
               /\ Registered(u) => Registered(u)'
               /\ engine'[u] = engine[u] /\ sse'[u] = sse[u]
               /\ c2s'[u] = c2s[u] /\ s2c'[u] = s2c[u]]_vars
  /\ [][\A s \in Sess : ReaderDropped(s) => Written(s)' = Written(s)]_vars
  /\ [](\A s \in Sess : TaskOver(s) => ~Registered(s))
  /\ [](nsess < MaxSessions => ENABLED (\E id \in Draw : Connect(id)))

\* The keys of the registry.
Keys == {id \in Ids : txs[id] # 0}

\* C21, as stated: the registry of a new App is empty; in every state its
\* keys are the ids of the sessions that have been connected and whose task
\* has not yet run its removal; and an insert makes the inserted id present
\* and leaves every other entry as it was.
C21_KeysAreActiveSessions ==
  /\ Init => Keys = {}
  /\ [](Keys = {sid[s] : s \in {u \in Sess : Active(u)}})
  /\ [][nsess' = nsess + 1 =>
          /\ txs'[sid'[nsess']] # 0
          /\ \A id \in Ids \ {sid'[nsess']} : txs'[id] = txs[id]]_vars

\* A decode call on the codec's buffer returns in this step.
DecodeStep == cfeeds' = cfeeds /\ <<cbuf, cout, cstep>>' # <<cbuf, cout, cstep>>

\* The bytes appended to the codec's buffer so far.
Fed == SubSeq(cstream, 1, cpos)

\* C22: a decode call on a buffer with a delimiter returns the bytes before
\* the first delimiter as one frame (of no bytes when the delimiter comes
\* first) and leaves in the buffer exactly the bytes after that delimiter;
\* a buffer holding one terminated frame and nothing else is empty afterwards.
C22_DecodeTakesFirstFrame ==
  [][(DecodeStep /\ \E i \in 1..Len(cbuf) : cbuf[i] = "nl") =>
       LET i == NlPlace(cbuf, 1)
       IN /\ cstep' = "frame"
          /\ cout' = Append(cout, SubSeq(cbuf, 1, i - 1))
          /\ cbuf' = SubSeq(cbuf, i + 1, Len(cbuf))
          /\ i = 1 => Len(cout'[Len(cout')]) = 0
          /\ i = Len(cbuf) => cbuf' = <<>>]_vars

\* C22 happens: a frame of no bytes has been returned from a buffer that
\* held more behind the delimiter, and those bytes are still there.
C22_Witness ==
  /\ cstep = "frame"
  /\ cout = << <<>> >>
  /\ cfeeds = 1
  /\ cbuf = SubSeq(cstream, 2, Len(cstream))
  /\ Len(cbuf) >= 2

\* C23: a decode call on a buffer without a delimiter, the empty buffer
\* included, returns no frame and leaves the buffer as it was.
C23_NoDelimiterNoFrame ==
  [][(DecodeStep /\ \A i \in 1..Len(cbuf) : cbuf[i] # "nl") =>
       /\ cstep' = "none"
       /\ cout' = cout
       /\ cbuf' = cbuf]_vars

\* C23 happens: decode has returned nothing on a buffer of two bytes.
C23_Witness ==
  /\ cstep = "none"
  /\ Len(cbuf) = 2
  /\ cout = <<>>

\* The whole stream was appended at once and is k terminated frames.
BackToBack ==
  /\ cfeeds = 1
  /\ cpos = Len(cstream)
  /\ cstream[Len(cstream)] = "nl"

\* C24: a decode call returns at most one frame, and returns one while the
\* buffer holds a terminated frame; on a buffer of k back-to-back frames the
\* calls return the frames in buffer order and the buffer is empty once the
\* k-th has been returned.
C24_OneFramePerCall ==
  /\ [][DecodeStep =>
          /\ Len(cout') <= Len(cout) + 1
          /\ FramesOf(cbuf) # <<>> => cout' = Append(cout, FramesOf(cbuf)[1])]_vars
  /\ [](BackToBack =>
          LET all == FramesOf(cstream)
          IN /\ Len(cout) <= Len(all)
             /\ cout = SubSeq(all, 1, Len(cout))
             /\ FramesOf(cbuf) = SubSeq(all, Len(cout) + 1, Len(all))
             /\ Len(cout) = Len(all) => cbuf = <<>>)

\* C24 happens: two frames appended together have both been returned.
C24_Witness ==
  /\ BackToBack
  /\ Len(cout) = 2
  /\ cout[1] # cout[2]
  /\ cbuf = <<>>

\* C25: however the stream is cut into chunks, the frames returned are the
\* first frames of the stream split at its delimiters, the buffer holds the
\* appended bytes behind the last frame returned, and once nothing appended
\* is left to decode every terminated frame appended has been returned.
C25_ChunkingDoesNotMatter ==
  /\ Len(cout) <= Len(FramesOf(Fed))
  /\ cout = SubSeq(FramesOf(cstream), 1, Len(cout))
  /\ cbuf = SubSeq(Fed, NlPlace(Fed, Len(cout)) + 1, Len(Fed))
  /\ (cstep = "none" => cout = FramesOf(Fed))

\* C25 happens: a stream appended byte by byte has given a frame of two
\* bytes, and a piece without a delimiter is waiting in the buffer.
C25_Witness ==
  /\ cfeeds = cpos
  /\ cpos = Len(cstream)
  /\ Len(cout) = 1
  /\ Len(cout[1]) = 2
  /\ cstep = "none"
  /\ cbuf # <<>>

\* Call c is made in this step.
Starts(c) == call[c].pc = "idle" /\ call'[c].pc # "idle"

\* The tools call_tool knows.
KnownTools == {"lookup_crate", "search_crates", "lookup_item"}

\* C26: a call with a name that is none of the three tools returns at once
\* ToolError::NotFound with the name in its message, has sent no request,
\* has not looked into the cache, and leaves the cache as it was.
C26_UnknownToolNotFound ==
  [][\A c \in Calls :
       (Starts(c) /\ call'[c].tool \notin KnownTools) =>
         /\ call'[c].pc = "done"
         /\ call'[c].result.kind = "NotFound"
         /\ \E i \in 1..Len(call'[c].result.msg) : call'[c].result.msg[i] = call'[c].tool
         /\ call'[c].nreq = 0
         /\ ~call'[c].looked
         /\ cache' = cache]_vars

\* C26 happens: a call of "invalid_tool" has returned NotFound on a router
\* whose cache holds an entry.
C26_Witness ==
  \E c \in Calls :
    /\ call[c].pc = "done"
    /\ call[c].tool = "invalid_tool"
    /\ call[c].result.kind = "NotFound"
    /\ \E k \in CacheKeys : cache[k] # <<>>

\* The first required argument of the tool that is missing or no string
\* ("" when there is none).
FirstBad(tool, args) ==
  IF tool = "lookup_crate"
  THEN (IF args.crate_name.t # "str" THEN "crate_name" ELSE "")
  ELSE IF tool = "search_crates"
  THEN (IF args.query.t # "str" THEN "query" ELSE "")
  ELSE IF args.crate_name.t # "str" THEN "crate_name"
  ELSE IF args.item_path.t # "str" THEN "item_path"
  ELSE ""

\* The message that says the argument is required.
IsRequired(arg) ==
  IF arg = "crate_name" THEN <<"crate_name is required">>
  ELSE IF arg = "query" THEN <<"query is required">>
  ELSE <<"item_path is required">>

\* C27: a call of a known tool with a required argument missing or not a
\* string returns at once InvalidParameters naming the first such argument
\* (crate_name before item_path), before any cache lookup and any request.
C27_BadArgumentsRejectedFirst ==
  [][\A c \in Calls :
       (/\ Starts(c)
        /\ call'[c].tool \in KnownTools
        /\ FirstBad(call'[c].tool, call'[c].args) # "") =>
         /\ call'[c].pc = "done"
         /\ call'[c].result.kind = "InvalidParameters"
         /\ call'[c].result.msg = IsRequired(FirstBad(call'[c].tool, call'[c].args))
         /\ call'[c].nreq = 0
         /\ ~call'[c].looked
         /\ cmutex' = cmutex
         /\ cache' = cache]_vars

\* C27 happens: lookup_item was called with neither argument a string and
\* the error names crate_name.
C27_Witness ==
  \E c \in Calls :
    /\ call[c].pc = "done"
    /\ call[c].tool = "lookup_item"
    /\ call[c].args.crate_name.t # "str"
    /\ call[c].args.item_path.t # "str"
    /\ call[c].result = InvalidParameters(<<"crate_name is required">>)

\* The pieces of the cache key of a lookup call with these arguments: the
\* crate name, the version if one is given, the item path for lookup_item.
KeyPieces(tool, args) ==
  <<args.crate_name.s>> \o
  (IF args.version.t = "str" THEN <<args.version.s>> ELSE <<>>) \o
  (IF tool = "lookup_item" THEN <<args.item_path.s>> ELSE <<>>)

\* C28: when the lookup of a lookup_crate or lookup_item call finds a value
\* under the call's key, the call returns that value as its one text
\* content, has sent no request, and the cache is as it was.
C28_CacheHitIsReturned ==
  [][\A c \in Calls :
       (/\ call[c].pc = "getlocked"
        /\ call'[c].pc # "getlocked"
        /\ cache[KeyPieces(call[c].tool, call[c].args)] # <<>>) =>
         /\ call'[c].pc = "done"
         /\ call'[c].result.kind = "Ok"
         /\ call'[c].result.content = cache[KeyPieces(call[c].tool, call[c].args)]
         /\ Len(call'[c].result.content) = 1
         /\ call'[c].nreq = 0
         /\ cache' = cache]_vars

\* C28 happens: a lookup_item call with a version has returned the cached
\* value without a request.
C28_Witness ==
  \E c \in Calls :
    /\ call[c].pc = "done"
    /\ call[c].tool = "lookup_item"
    /\ call[c].args.version.t = "str"
    /\ call[c].looked
    /\ call[c].nreq = 0
    /\ call[c].result.kind = "Ok"
    /\ call[c].result.content = cache[KeyPieces(call[c].tool, call[c].args)]

\* C29: every key of the cache holds the value of the set on that key that
\* completed last (nothing where none has completed), whatever sets on
\* other keys did in between, and every get returns that value.
C29_GetSeesLatestSet ==
  /\ [](cache = latest)
  /\ [][\A c \in Calls :
          (call[c].pc = "getlocked" /\ call'[c].pc # "getlocked") =>
            call'[c].got = latest[call[c].key]]_vars

\* C29 happens: a get has returned the second value set on its key while
\* another key holds a different value and another call is inside set.
C29_Witness ==
  \E c, d \in Calls : \E k \in CacheKeys :
    /\ call[c].pc = "done"
    /\ call[c].looked
    /\ call[c].got = <<"m2">>
    /\ cache[KeyPieces(call[c].tool, call[c].args)] = <<"m2">>
    /\ cache[k] = <<"m1">>
    /\ call[d].pc = "setlocked"
    /\ call[d].key = k

\* C30, as stated: the per_page of a search is 10 when no limit is given
\* and the smaller of the limit and 100 for every limit that is an integer
\* not below zero.
C30_PerPageIsMinOfLimit ==
  [][\A c \in Calls :
       (Starts(c) /\ call'[c].pc = "fetch" /\ call'[c].tool = "search_crates") =>
         LET l == call'[c].args.limit
         IN /\ l.t = "absent" => call'[c].url.per_page = DEFAULT_LIMIT
            /\ (l.t = "num" /\ l.n >= 0) =>
                 call'[c].url.per_page = (IF l.n < MAX_LIMIT THEN l.n ELSE MAX_LIMIT)]_vars

\* C31: the step in which a submit's counted size passes the ceiling writes
\* nothing and ends the submit with 413, all earlier chunks being in the
\* pipe whole; so a submit never forwards more body bytes than the ceiling
\* (1 << 22 = 4194304 in the source), the bytes of the chunk that passed it
\* are in no pipe, and a submit that ended with 413 has written no newline.
C31_OverCeilingChunkNotWritten ==
  /\ BODY_BYTES_LIMIT_SRC = 4194304
  /\ [](\A h \in Hand :
          /\ sent[h] <= BODY_BYTES_LIMIT
          /\ \A s \in Sess : \A i \in 1..Len(Stream(s)) :
                Stream(s)[i][1] = h => Stream(s)[i][2] <= BODY_BYTES_LIMIT
          /\ status[h] = PAYLOAD_TOO_LARGE =>
                \A s \in Sess : \A i \in 1..Len(Stream(s)) :
                  Stream(s)[i][1] = h =>
                    (Stream(s)[i][2] # 0 /\ Stream(s)[i][2] <= sent[h]))
  /\ [][\A h \in Hand :
          (size[h] <= BODY_BYTES_LIMIT /\ size'[h] > BODY_BYTES_LIMIT) =>
             /\ status'[h] = PAYLOAD_TOO_LARGE
             /\ pc'[h] = "done"
             /\ sent'[h] = size[h]
             /\ UNCHANGED <<c2s, recv>>]_vars

\* C31's case: a submit forwarded a first chunk and was ended with 413 by
\* its second, of which the pipe holds nothing.
C31_Witness ==
  \E h \in Hand :
    /\ status[h] = PAYLOAD_TOO_LARGE
    /\ hint[h] = NoHint
    /\ sent[h] > 0
    /\ size[h] > BODY_BYTES_LIMIT
    /\ OwnBytes(Stream(wr[h]), h) = Bytes(h, 1, sent[h])

\* No submit holds the write handle of session s.
NoHolder(s) == \A h \in Hand : ~(holds[h] /\ wr[h] = s)

\* The bytes written to session s's pipe are complete frames: whole frames,
\* each one submit's whole body and its newline, the last one terminated.
CompleteFrames(s) ==
  /\ WholeFrames(s)
  /\ Stream(s) # <<>> => IsNewline(Stream(s), Len(Stream(s)))

OtherAnnouncers(s, id) == {t \in Sess \ {s} : Active(t) /\ sid[t] = id}

\* C33: bytes submitted with session id A reach only the engine created by
\* the connect that announced A: a submit's bytes lie in one session's pipe
\* only, the session whose handle it cloned, and when it clones the handle
\* that session is the one live session whose connect announced the id.
C33_SubmitReachesOnlyItsSession ==
  /\ [](\A s \in Sess : \A h \in Hand :
          OwnBytes(Stream(s), h) # <<>> => (wr[h] = s /\ sid[s] = hid[h]))
  /\ [][\A h \in Hand :
          (wr[h] = 0 /\ wr'[h] # 0) =>
             /\ sid[wr'[h]] = hid'[h]
             /\ OtherAnnouncers(wr'[h], hid'[h]) = {}]_vars

\* The submits that hold a clone of the write handle of session s: the
\* clone is a local of the handler and lives until the handler returns.
HandleClones(s) == {h \in Hand : wr[h] = s /\ pc[h] # "done"}

\* The write half of the inbound pipe of session s is open: the
\* Arc<Mutex<..>> around it is owned by the registry entry or by a submit.
WriteEndOpen(s) == Registered(s) \/ HandleClones(s) # {}

\* C34: while the id of a live session is a key of the registry, the write
\* end of the session's inbound pipe is open, and when the write end closes
\* the session's task has run its removal and no submit holds a clone of
\* the handle.
C34_WriteEndOpenWhileRegistered ==
  /\ [](\A s \in Sess : (Active(s) /\ sid[s] \in Keys) => WriteEndOpen(s))
  /\ [][\A s \in Sess :
          (WriteEndOpen(s) /\ ~WriteEndOpen(s)') =>
             (engine'[s] = "done" /\ HandleClones(s)' = {})]_vars

\* The endpoint event of session s has been emitted.
Announced(s) == events[s] # <<>> /\ events[s][1] = EndpointEvent(s)

\* C35: the endpoint event of a session is emitted only after its registry
\* insert and the spawn of its engine task, and a submit that arrives with
\* the id of a session whose endpoint event has been emitted is answered
\* Not-Found only if that session's engine task has ended and has run its
\* removal.
C35_NotFoundOnlyAfterTaskEnd ==
  /\ [][\A s \in Sess :
          events'[s] # events[s] /\ events[s] = <<>> =>
             (sid[s] # 0 /\ engine[s] # "unborn" /\ Announced(s)')]_vars
  /\ [][\A h \in Hand : \A s \in Sess :
          (Arrives(h) /\ Announced(s) /\ hid'[h] = sid[s] /\ status'[h] = NOT_FOUND) =>
             engine[s] = "done"]_vars

\* Submit h is suspended on a full pipe.
OnFullPipe(h) == pc[h] = "write" /\ holds[h] /\ Len(c2s[wr[h]]) = BUFFER_SIZE

C37_SubmitEventuallyReturns ==
  \A h \in Hand :
    \/ <>[](pc[h] = "body")
    \/ (pc[h] \notin {"idle", "done"}) ~> (pc[h] = "done")

\* Call c is a lookup_item about to send a request.
AsksItem(c) == call[c].tool = "lookup_item" /\ call[c].pc = "fetch"

\* The kinds in the order the claim gives them.
KindsInOrder == <<"struct", "enum", "trait", "fn", "macro">>

\* The kind named in the URL of an item page.
KindOfUrl(url) == url.parts[8]

\* The request of call c has been answered.
Answered(c) == AsksItem(c) /\ call'[c] # call[c]

\* The order of lookup_item's requests, and what follows a page: the n-th
\* request asks for the n-th kind, a page that was read ends the requests,
\* is converted and, once cached, returned.
ItemRequestsInOrder ==
  [][\A c \in Calls :
       /\ Answered(c) =>
            /\ call[c].nreq < Len(KindsInOrder)
            /\ KindOfUrl(call[c].url) = KindsInOrder[call[c].nreq + 1]
            /\ call[c].url = ItemUrl(AsStr(call[c].args.crate_name)[1], AsStr(call[c].args.item_path)[1],
                                     AsStr(call[c].args.version), call[c].nreq + 1)
            /\ call'[c].nreq = call[c].nreq + 1
            /\ call'[c].pc = "set" => call'[c].doc \in {ParseHtml(pg) : pg \in Pages}
       /\ (call[c].tool = "lookup_item" /\ call[c].pc \in {"set", "setlocked"}) =>
            /\ call'[c].nreq = call[c].nreq
            /\ call'[c].pc \in {"set", "setlocked", "done"}
            /\ call'[c].pc = "done" => call'[c].result = Ok(call[c].doc)]_vars

\* lookup_item returns ToolError::ExecutionError.
ItemFails(c) ==
  /\ call[c].tool = "lookup_item"
  /\ call[c].pc # "done"
  /\ call'[c].pc = "done"
  /\ call'[c].result.kind = "ExecutionError"

\* C38, as stated: lookup_item asks for the kinds struct, enum, trait, fn,
\* macro in that order, returns the converted page of the first kind whose
\* request succeeds without trying later kinds, and returns
\* ToolError::ExecutionError only after all five kinds have failed.
C38_ErrorOnlyAfterFiveKinds ==
  /\ ItemRequestsInOrder
  /\ [][\A c \in Calls : ItemFails(c) => call'[c].nreq = Len(KindsInOrder)]_vars

\* C38, amended: the same order and the same end at the first page that is
\* read; ToolError::ExecutionError "No matching item found" with the last
\* failure is returned only after all five kinds have failed, and the only
\* other ExecutionError is "Failed to read response body", returned at once
\* when a response with a success status cannot be read.
C38_ErrorAfterFiveKindsOrUnreadBody ==
  /\ ItemRequestsInOrder
  /\ [][\A c \in Calls :
          ItemFails(c) =>
            \/ /\ call'[c].nreq = Len(KindsInOrder)
               /\ Len(call'[c].result.msg) = 2
               /\ call'[c].result.msg[1] = "Failed to fetch item documentation. No matching item found. Last error: "
               /\ call'[c].result.msg[2] \in {"send", "Status code: 404"}
            \/ call'[c].result.msg[1] = "Failed to read response body: "]_vars

\* C38's cases: one lookup_item has failed after five requests, and another
\* has returned a page at its third request.
C38_Witness ==
  \E c, d \in Calls :
    /\ call[c].tool = "lookup_item" /\ call[c].pc = "done"
    /\ call[c].result.kind = "ExecutionError" /\ call[c].nreq = Len(KindsInOrder)
    /\ call[d].tool = "lookup_item" /\ call[d].pc = "done"
    /\ call[d].result.kind = "Ok" /\ call[d].nreq = 3 /\ call[d].got = <<>>

\* Call c takes a step that is not a return with Ok.
StepsWithoutOk(c) == call'[c] # call[c] /\ ~(call'[c].pc = "done" /\ call'[c].result.kind = "Ok")

\* C39: a call writes to the cache only in the step that follows a request
\* answered with a page and the page's conversion, only the converted page,
\* and only under the key built from its own arguments; every other step
\* of a call, the return of any error among them, leaves the cache as it
\* was, and the cache never holds anything but converted pages.
C39_CacheWrittenOnlyAfterSuccess ==
  /\ [][\A c \in Calls :
          /\ StepsWithoutOk(c) => cache' = cache
          /\ (call'[c] # call[c] /\ cache' # cache) =>
               /\ call[c].tool \in {"lookup_crate", "lookup_item"}
               /\ call[c].nreq >= 1
               /\ call[c].got = <<>>
               /\ call[c].doc \in Markdowns
               /\ call[c].key = KeyPieces(call[c].tool, call[c].args)
               /\ cache' = [cache EXCEPT ![call[c].key] = <<call[c].doc>>]
               /\ call'[c].result = Ok(call[c].doc)]_vars
  /\ [](\A k \in CacheKeys : cache[k] # <<>> => cache[k][1] \in Markdowns)

\* C39's cases: a lookup_crate has returned an error after its request and
\* nothing lies under its key, and a lookup_item has returned a page that
\* now lies under its key.
C39_Witness ==
  \E c, d \in Calls :
    /\ call[c].tool = "lookup_crate" /\ call[c].pc = "done"
    /\ call[c].result.kind = "ExecutionError" /\ call[c].nreq = 1
    /\ cache[KeyPieces(call[c].tool, call[c].args)] = <<>>
    /\ call[d].tool = "lookup_item" /\ call[d].pc = "done"
    /\ call[d].result.kind = "Ok" /\ call[d].nreq >= 1
    /\ cache[KeyPieces(call[d].tool, call[d].args)] = call[d].result.content

\* The two tools that use the cache.
Lookups == {"lookup_crate", "lookup_item"}

\* Call c has fetched a page, cached it and returned it.
CachedItsPage(c) ==
  /\ call[c].tool \in Lookups
  /\ call[c].pc = "done"
  /\ call[c].result.kind = "Ok"
  /\ call[c].nreq >= 1

\* C40: the cache keys of a lookup_crate call and of a lookup_item call
\* are never equal, and a call whose lookup finds a value in the cache is
\* not handed the page that a call of the other tool has cached.
C40_ToolsNeverShareCacheKey ==
  /\ [](\A c, d \in Calls :
          (/\ call[c].tool = "lookup_crate" /\ call[c].key # <<>>
           /\ call[d].tool = "lookup_item" /\ call[d].key # <<>>) =>
            call[c].key # call[d].key)
  /\ [][\A c, d \in Calls :
          (/\ call[d].pc = "getlocked" /\ call'[d].pc = "done" /\ call'[d].got # <<>>
           /\ CachedItsPage(c)
           /\ call[c].tool # call[d].tool) =>
            ~(/\ KeyPieces(call[c].tool, call[c].args) = call[d].key
              /\ call'[d].result = call[c].result)]_vars

====
